---- MODULE Spec2Model ----
(***************************************************************************)
(* The poker service's cache-aside discipline: CreateGame, TeamCreateGame, *)
(* UpdateGame, GetGameByID and DeleteGame of internal/db/poker, running    *)
(* concurrently against the relational store and the Redis cache.          *)
(*                                                                         *)
(* Every call is a process that moves through the store and cache          *)
(* round-trips of its code one at a time; a round-trip is atomic (one SQL  *)
(* statement or transaction, one Redis command), the steps of different    *)
(* calls interleave freely.                                                *)
(***************************************************************************)
EXTENDS Integers, Sequences, FiniteSets, TLC

\* ------------------------------------------------------------- bounds
MaxGames == 2
MaxStories == 1
MaxCalls == 3
MaxItems == 3
MaxRequests == 3
MaxQueue == 1
MaxInbox == 2
MaxNewStories == 3
MaxHelperCalls == 2
MaxAvailable == 3
MaxContent == 4
MaxParsePoints == 2
MaxPlans == 3
MaxDrops == 2

Procs == {"p1", "p2"}
UserIDs == {"u1", "u2"}
GameIDs == 1..MaxGames

\* The environment of one behaviour: everything works, the service was built
\* without a cache client, or one collaborator may fail on any round-trip.
Envs == {"healthy", "redis_nil", "redis_flaky", "db_flaky", "crypto_flaky"}

VARIABLES
    poker,              \* thunderdome.poker: id -> row
    poker_facilitator,  \* thunderdome.poker_facilitator: id -> user ids
    poker_story,        \* thunderdome.poker_story: id -> rows in position order
    poker_user,         \* thunderdome.poker_user: id -> user ids
    nextID,             \* the next id the store allocates
    env,                \* the environment, fixed per behaviour
    cache,              \* Redis: key -> JSON text
    pc,                 \* where each call stands
    call,               \* the call's operation and arguments
    loc,                \* the call's local variables
    ret,                \* what the call returned
    calls,              \* calls started so far
    res,                \* what the last call of a helper of package redis returned
    session,            \* the Session Actor's in-memory session
    inbox,              \* the session's serialization queue: requests accepted, not yet applied
    applied,            \* the requests processed, in order: number, type, accepted or not
    events,             \* the events the Session Actor has emitted, in order
    conns,              \* the Broadcast Hub's connections of the session
    boot,               \* how far main has come, and what InitRedis left behind
    h,                  \* the callers of the helpers of package redis, one per goroutine
    metrics,            \* redis.metrics: HitCount, MissCount and who holds the mutex
    tally,              \* the Tally Engine's input and its output
    ai,                 \* package ai: a call of one of its functions, or a request to SuggestPoints
    dnd                 \* the story list component: its plans and the socket events it sent

store == <<poker, poker_facilitator, poker_story, poker_user, nextID>>
\* What only the poker service touches, and what only the redis helpers touch.
serviceVars == <<poker, poker_facilitator, poker_story, poker_user, nextID,
                 pc, call, loc, ret, calls>>
helperVars == <<res, h, metrics>>
\* What only the Session Actor and the Broadcast Hub touch.
actorVars == <<session, inbox, applied, events, conns>>
\* What a step of the poker service leaves alone.
notService == <<helperVars, actorVars, boot, tally, ai, dnd>>
\* What a step of the Session Actor or the Hub, and what a call of a helper, leaves
\* alone.
notActor == <<serviceVars, env, cache, helperVars, boot, tally, ai, dnd>>
notHelper == <<serviceVars, env, actorVars, boot, tally, ai, dnd>>
vars == <<poker, poker_facilitator, poker_story, poker_user, nextID, env, cache,
          pc, call, loc, ret, calls, res, session, inbox, applied, events, conns,
          boot, h, metrics, tally, ai, dnd>>

\* ------------------------------------------------------------- access codes
AESHashKey == "k"

\* A code is its text and the key it is encrypted under ("" for plaintext).
Plain(t) == [key |-> "", text |-> t]
NoCode == Plain("")

Encrypt(code, key) == [key |-> key, text |-> code.text]
Decrypt(code, key) == [key |-> "", text |-> code.text]

IsPlaintext(code) == code.text # "" /\ code.key = ""

\* ------------------------------------------------------------- values
EstimationScaleID == "scale1"

Configs ==
    { [name |-> "a", pointValuesAllowed |-> <<"1", "2", "?">>, autoFinishVoting |-> TRUE,
       pointAverageRounding |-> "ceil", hideVoterIdentity |-> FALSE,
       joinCode |-> NoCode, facilitatorCode |-> NoCode, teamID |-> ""],
      [name |-> "b", pointValuesAllowed |-> <<"1", "3">>, autoFinishVoting |-> FALSE,
       pointAverageRounding |-> "round", hideVoterIdentity |-> TRUE,
       joinCode |-> Plain("jc"), facilitatorCode |-> Plain("fc"), teamID |-> "t1"] }

ZeroCfg ==
    [name |-> "", pointValuesAllowed |-> <<>>, autoFinishVoting |-> FALSE,
     pointAverageRounding |-> "", hideVoterIdentity |-> FALSE,
     joinCode |-> NoCode, facilitatorCode |-> NoCode, teamID |-> ""]

\* thunderdome.Story as a caller passes it in: no id and no position yet.
NewStory(i) == [ID |-> 0, Name |-> <<"story", i>>, Position |-> 0]
StoryLists == { [i \in 1..n |-> NewStory(i)] : n \in 0..MaxStories }

\* The zero value of thunderdome.Poker.
ZeroPoker ==
    [ID |-> 0, Name |-> "", Users |-> <<>>, Stories |-> <<>>, VotingLocked |-> FALSE,
     ActiveStoryID |-> 0, PointValuesAllowed |-> <<>>, AutoFinishVoting |-> FALSE,
     PointAverageRounding |-> "", HideVoterIdentity |-> FALSE, Facilitators |-> <<>>,
     JoinCode |-> NoCode, FacilitatorCode |-> NoCode, EstimationScaleID |-> "",
     TeamID |-> "", CreatedDate |-> "zero"]

\* json.Marshal / json.Unmarshal of a thunderdome.Poker: the text stored in Redis.
Marshal(game) == [json |-> game]
Unmarshal(data) == data.json

Contains(s, x) == \E i \in 1..Len(s) : s[i] = x

Drop(f, k) == [x \in DOMAIN f \ {k} |-> f[x]]


\* ------------------------------------------------------------- the cache
\* A key that does not depend on the session.
CacheKey_Mutant(pokerID) == <<"game:", 1>>

\* GetGameByID, CreateGame, UpdateGame and DeleteGame all format the key this way.
CacheKey(pokerID) == <<"game:", pokerID>>

\* One Redis SET: the key holds the value afterwards; a flaky Redis may refuse.
RedisSet(c, key, value) ==
    {(key :> value) @@ c} \cup (IF env = "redis_flaky" THEN {c} ELSE {})

\* One Redis DEL: the key is gone afterwards (absent or not); a flaky Redis may refuse.
RedisDel(c, key) ==
    {Drop(c, key)} \cup (IF env = "redis_flaky" THEN {c} ELSE {})

\* A completeness test that accepts every decoded entry.
CacheComplete_Mutant(game) == TRUE

\* The completeness test GetGameByID applies to a decoded entry.
CacheComplete(game) == Len(game.Stories) > 0 /\ Len(game.Users) > 0

\* GetGameByID's cache read: a hit with the decoded game, or a miss (no client,
\* GET failed, key absent, entry undecodable, entry incomplete).
CacheRead(pokerID) ==
    LET key == CacheKey(pokerID)
        miss == [hit |-> FALSE, incomplete |-> FALSE, game |-> ZeroPoker]
    IN  IF env = "redis_nil" THEN {miss}
        ELSE (IF env = "redis_flaky" THEN {miss} ELSE {})
             \cup (IF key \notin DOMAIN cache THEN {miss}
                   ELSE LET game == Unmarshal(cache[key])
                        IN  IF CacheComplete(game)
                            THEN {[hit |-> TRUE, incomplete |-> FALSE, game |-> game]}
                            ELSE {[hit |-> FALSE, incomplete |-> TRUE, game |-> ZeroPoker]})

\* A GetGameByID that returns what it built without writing it back.
GetWriteBack_Mutant(c, pokerID, b) == {c}

\* GetGameByID's write-back of the aggregate it built; the result of SET is dropped.
GetWriteBack(c, pokerID, b) ==
    IF env = "redis_nil" THEN {c} ELSE RedisSet(c, CacheKey(pokerID), Marshal(b))

\* A CreateGame that skips its own cache write.
CreateWriteBack_Mutant(c, pokerID, completeGame) == {c}

\* CreateGame's and TeamCreateGame's write of the aggregate they read back.
CreateWriteBack(c, pokerID, completeGame) ==
    IF env = "redis_nil" THEN {c} ELSE RedisSet(c, CacheKey(pokerID), Marshal(completeGame))

\* UpdateGame's and DeleteGame's invalidation; the result of DEL is dropped.
Invalidate(c, pokerID) ==
    IF env = "redis_nil" THEN {c} ELSE RedisDel(c, CacheKey(pokerID))

\* ------------------------------------------------------------- the store
\* Codes are encrypted only when supplied; an absent code is stored as ''.
EncryptCode(code) == IF code.text # "" THEN Encrypt(code, AESHashKey) ELSE NoCode

\* A row inserted with voting open.
PokerRow_Mutant(cfg, teamID) ==
    [name |-> cfg.name, voting_locked |-> FALSE, active_story_id |-> 0,
     point_values_allowed |-> cfg.pointValuesAllowed,
     auto_finish_voting |-> cfg.autoFinishVoting,
     point_average_rounding |-> cfg.pointAverageRounding,
     hide_voter_identity |-> cfg.hideVoterIdentity,
     join_code |-> EncryptCode(cfg.joinCode),
     leader_code |-> EncryptCode(cfg.facilitatorCode),
     estimation_scale_id |-> EstimationScaleID, team_id |-> teamID,
     created_date |-> "now"]

\* The row CreateGame / TeamCreateGame inserts into thunderdome.poker.
PokerRow(cfg, teamID) ==
    [name |-> cfg.name, voting_locked |-> TRUE, active_story_id |-> 0,
     point_values_allowed |-> cfg.pointValuesAllowed,
     auto_finish_voting |-> cfg.autoFinishVoting,
     point_average_rounding |-> cfg.pointAverageRounding,
     hide_voter_identity |-> cfg.hideVoterIdentity,
     join_code |-> EncryptCode(cfg.joinCode),
     leader_code |-> EncryptCode(cfg.facilitatorCode),
     estimation_scale_id |-> EstimationScaleID, team_id |-> teamID,
     created_date |-> "now"]

\* Rows that all get the position of the first.
StoryRows_Mutant(stories) ==
    [i \in 1..Len(stories) |-> [name |-> stories[i].Name, position |-> 0]]

\* The rows inserted into thunderdome.poker_story: the loop index is the position.
StoryRows(stories) ==
    [i \in 1..Len(stories) |-> [name |-> stories[i].Name, position |-> i - 1]]

\* The aggregate CreateGame builds in memory before it writes anything.
NewPoker(facilitatorID, cfg, teamID) ==
    [ZeroPoker EXCEPT !.Name = cfg.name, !.VotingLocked = TRUE,
                      !.PointValuesAllowed = cfg.pointValuesAllowed,
                      !.AutoFinishVoting = cfg.autoFinishVoting,
                      !.PointAverageRounding = cfg.pointAverageRounding,
                      !.HideVoterIdentity = cfg.hideVoterIdentity,
                      !.Facilitators = <<facilitatorID>>,
                      !.JoinCode = cfg.joinCode,
                      !.FacilitatorCode = cfg.facilitatorCode,
                      !.EstimationScaleID = EstimationScaleID,
                      !.TeamID = teamID]

\* An UPDATE that also closes voting and drops the active story.
UpdateRow_Mutant(rows, pokerID, cfg) ==
    IF pokerID \notin DOMAIN rows THEN rows
    ELSE [rows EXCEPT ![pokerID] =
            [@ EXCEPT !.name = cfg.name, !.voting_locked = TRUE, !.active_story_id = 0,
                      !.point_values_allowed = cfg.pointValuesAllowed,
                      !.auto_finish_voting = cfg.autoFinishVoting,
                      !.point_average_rounding = cfg.pointAverageRounding,
                      !.hide_voter_identity = cfg.hideVoterIdentity,
                      !.join_code = EncryptCode(cfg.joinCode),
                      !.leader_code = EncryptCode(cfg.facilitatorCode),
                      !.team_id = cfg.teamID]]

\* The SET clause of UpdateGame's UPDATE ... WHERE id = $1 (no row: nothing changes).
UpdateRow(rows, pokerID, cfg) ==
    IF pokerID \notin DOMAIN rows THEN rows
    ELSE [rows EXCEPT ![pokerID] =
            [@ EXCEPT !.name = cfg.name,
                      !.point_values_allowed = cfg.pointValuesAllowed,
                      !.auto_finish_voting = cfg.autoFinishVoting,
                      !.point_average_rounding = cfg.pointAverageRounding,
                      !.hide_voter_identity = cfg.hideVoterIdentity,
                      !.join_code = EncryptCode(cfg.joinCode),
                      !.leader_code = EncryptCode(cfg.facilitatorCode),
                      !.team_id = cfg.teamID]]

\* poker_user rows of a game, as GetUsers returns them.
GetUsers(pokerID) ==
    IF pokerID \in DOMAIN poker_user THEN poker_user[pokerID] ELSE <<>>

\* poker_story rows of a game in position order, as GetStories returns them.
GetStories(pokerID, userID) ==
    IF pokerID \in DOMAIN poker_story
    THEN [i \in 1..Len(poker_story[pokerID]) |->
            [ID |-> i, Name |-> poker_story[pokerID][i].name,
             Position |-> poker_story[pokerID][i].position]]
    ELSE <<>>

\* GetGameByID's SELECT and what it makes of the row: the join code is decrypted for
\* anyone, the facilitator code only for a facilitator.
QueryRow(pokerID, userID) ==
    LET failed == [err |-> "error", b |-> ZeroPoker]
    IN  (IF env = "db_flaky" THEN {failed} ELSE {})
        \cup
        (IF pokerID \notin DOMAIN poker THEN {failed}
         ELSE LET row == poker[pokerID]
                  facilitators == poker_facilitator[pokerID]
                  isFacilitator == Contains(facilitators, userID)
                  decryptJoin == row.join_code.text # ""
                  decryptLeader == row.leader_code.text # "" /\ isFacilitator
                  b == [ID |-> pokerID, Name |-> row.name, Users |-> <<>>,
                        Stories |-> <<>>, VotingLocked |-> row.voting_locked,
                        ActiveStoryID |-> row.active_story_id,
                        PointValuesAllowed |-> row.point_values_allowed,
                        AutoFinishVoting |-> row.auto_finish_voting,
                        PointAverageRounding |-> row.point_average_rounding,
                        HideVoterIdentity |-> row.hide_voter_identity,
                        Facilitators |-> facilitators,
                        JoinCode |-> IF decryptJoin
                                     THEN Decrypt(row.join_code, AESHashKey) ELSE NoCode,
                        FacilitatorCode |-> IF decryptLeader
                                            THEN Decrypt(row.leader_code, AESHashKey)
                                            ELSE NoCode,
                        EstimationScaleID |-> row.estimation_scale_id,
                        TeamID |-> row.team_id, CreatedDate |-> row.created_date]
              IN  {[err |-> "nil", b |-> b]}
                  \cup (IF env = "crypto_flaky" /\ (decryptJoin \/ decryptLeader)
                        THEN {failed} ELSE {}))

\* ------------------------------------------------------------- calls
NoCall == [op |-> "", pokerID |-> 0, userID |-> "", cfg |-> ZeroCfg,
           stories |-> <<>>]
\* b: GetGameByID's aggregate (CreateGame's completeGame); created: CreateGame's b;
\* incomplete: the cache read found an entry and rejected it.
NoLoc == [b |-> ZeroPoker, created |-> ZeroPoker, incomplete |-> FALSE]
\* err is "nil", "error" or "panic" ("" while the call runs); game is <<>> for a nil
\* pointer; hit tells a GetGameByID served from the cache; step names the round-trip
\* that failed; at is the number of calls started when this one returned.
NoRet == [err |-> "", game |-> <<>>, hit |-> FALSE, step |-> "", at |-> 0]

Ok(game, hit) == [NoRet EXCEPT !.err = "nil", !.game = <<game>>, !.hit = hit]
Failed(step) == [NoRet EXCEPT !.err = "error", !.step = step]
Panicked(step) == [NoRet EXCEPT !.err = "panic", !.step = step]

CreateOps == {"CreateGame", "TeamCreateGame"}

\* A pattern for KEYS: every key of a prefix, or one key.
NoPattern == [prefix |-> "", any |-> FALSE, id |-> 0]
\* What a helper of package redis returned: n is the count InvalidateByPattern
\* returns, again tells that the call repeats the successful call before it.
NoRes == [op |-> "", key |-> <<"", 0>>, pattern |-> NoPattern, n |-> 0, err |-> "",
          again |-> FALSE]

\* A caller of a helper: where it stands (pc), the helper it called (op) with key
\* and value, what Exists told it (exists), the value it ends holding (out), the
\* error it got (err: "" while it runs, "nil", "redis.Nil", "error", "panic"),
\* whether its call wrote the key (wrote), what GetCacheStats gave it (stats), and
\* how many calls it has made (n).
NoStats == [hit_count |-> 0, miss_count |-> 0, total_requests |-> 0, hit_rate |-> <<0, 1>>]
\* An InvalidateByPattern call holds its pattern, the keys KEYS gave it (keys) and
\* the count it returns (deleted); before is not in the code: the keys Redis held
\* when KEYS ran.
NoHelperCall == [pc |-> "idle", op |-> "", key |-> <<"", 0>>, value |-> "", exists |-> FALSE,
                 out |-> "", err |-> "", wrote |-> FALSE, stats |-> NoStats, n |-> 0,
                 pattern |-> NoPattern, keys |-> {}, deleted |-> 0, before |-> {}]

\* redis.metrics at package initialisation. found and absent are not fields of
\* RedisMetrics: they count the GETs Redis answered with a value and with redis.Nil.
NoMetrics == [HitCount |-> 0, MissCount |-> 0, mutex |-> "", found |-> 0, absent |-> 0]

\* main once it serves: the service was built with the client GetClient returned.
Serving(e) == [stage |-> "serving", initErr |-> "", logged |-> FALSE,
               client |-> e # "redis_nil"]

\* Nothing tallied yet.
NoTally == [votes |-> <<>>, done |-> FALSE, average |-> <<>>, undecided |-> 0,
            panicked |-> FALSE]

\* A call of a function of package ai: the function (fn), its arguments (content,
\* point, availablePoints), whether it has run (done), whether it failed on an
\* index or slice out of range (panicked), and the point and reason it returned.
\* A request to SuggestPoints: where the handler stands (pc), the request's method,
\* whether its body decodes, the configured AiApiUrl, the checks made so far in
\* their order, the calls made to the AI API, the status the API answered with (0:
\* no answer) and the responses written.
NoReq == [pc |-> "none", method |-> "", decodes |-> FALSE, url |-> "", checks |-> <<>>,
          aiCalls |-> 0, aiStatus |-> 0, written |-> <<>>]

NoAi == [fn |-> "", content |-> <<>>, point |-> <<>>, availablePoints |-> <<>>,
         done |-> FALSE, panicked |-> FALSE, out |-> <<>>, reason |-> <<>>,
         req |-> NoReq]

\* The story list component: the plans it shows in their order (by id), whether
\* the user leads the game, the tab shown, the story being dragged ("" when none)
\* and the order when the drag began, the socket events it sent, and the drops it
\* handled.
NoDnd == [plans |-> <<>>, isLeader |-> FALSE, storysShow |-> "unpointed",
          dragging |-> "", origin |-> <<>>, sent |-> <<>>, drops |-> 0]

\* ------------------------------------------------------------- the session actor
\* One session as its Session Actor holds it, and the requests it serializes.
Participants == {"u1", "u2", "u3"}
Items == 1..MaxItems
\* The Scale's permitted tokens; "x" is a value outside it.
Scale == {"1", "?"}
VoteValues == {"1", "x"}

\* A request as accepted into the queue: seq is its place in the order of acceptance.
Request(type, who, item, before, value) ==
    [seq |-> 0, type |-> type, who |-> who, item |-> item, before |-> before,
     value |-> value]

\* What clients send.
ClientRequests ==
    {Request("SubmitVote", u, 0, 0, v) : u \in Participants, v \in VoteValues}
    \cup {Request("ActivateItem", "", i, 0, "") : i \in Items}
    \cup {Request("FinalizeVoting", "", 0, 0, v) : v \in {"", "1"}}
    \cup {Request("ReorderItem", "", r[1], r[2], "") :
              r \in {x \in Items \X (0..MaxItems) : x[1] # x[2]}}

\* The session when the actor starts: the items queued in order, the first one
\* active and open for votes, everyone connected.
InitialSession(autoFinish, spectators) ==
    [position |-> [i \in Items |-> i - 1],
     points |-> [i \in Items |-> ""],
     votes |-> [i \in Items |-> <<>>],
     active |-> 1, locked |-> FALSE,
     live |-> [u \in Participants |-> TRUE],
     spectating |-> [u \in Participants |-> u \in spectators],
     autoFinish |-> autoFinish]

\* A connection: attached or dropped, its bounded outbound queue, and what its
\* client has received.
NewConn == [attached |-> TRUE, outq |-> <<>>, delivered |-> <<>>]

\* Session Actor and Hub not running.
ActorIdle ==
    /\ session = InitialSession(FALSE, {})
    /\ inbox = <<>>
    /\ applied = <<>>
    /\ events = <<>>
    /\ conns = [u \in Participants |-> NewConn]

\* The game the store holds before the service starts: created from the second
\* configuration by u1, joined by both users, its story active and open for votes.
InitialGame == CHOOSE cfg \in Configs : cfg.name = "b"

ServiceIdle ==
    /\ poker = (1 :> [PokerRow(InitialGame, "") EXCEPT !.voting_locked = FALSE,
                                                      !.active_story_id = 1])
    /\ poker_facilitator = (1 :> <<"u1">>)
    /\ poker_story = (1 :> StoryRows(<<NewStory(1)>>))
    /\ poker_user = (1 :> <<"u1", "u2">>)
    /\ nextID = 2
    /\ env \in Envs
    /\ cache = <<>>
    /\ pc = [p \in Procs |-> "idle"]
    /\ call = [p \in Procs |-> NoCall]
    /\ loc = [p \in Procs |-> NoLoc]
    /\ ret = [p \in Procs |-> NoRet]
    /\ calls = 0

\* No caller of a helper, nothing counted, nothing tallied.
HelpersIdle ==
    /\ res = NoRes
    /\ h = [p \in Procs |-> NoHelperCall]
    /\ metrics = NoMetrics

TallyIdle == tally = NoTally

AiIdle == ai = NoAi

DndIdle == dnd = NoDnd

Init ==
    /\ ServiceIdle
    /\ boot = Serving(env)
    /\ HelpersIdle
    /\ ActorIdle
    /\ TallyIdle /\ AiIdle /\ DndIdle

Goto(p, label) == pc' = [pc EXCEPT ![p] = label]

\* The call returns r; the process is free for its next call, and what it called
\* and got stays on record until then.
Return(p, r, n) == /\ pc' = [pc EXCEPT ![p] = "idle"]
                   /\ ret' = [ret EXCEPT ![p] = [r EXCEPT !.at = n]]

\* How the transactional write of CreateGame can end: "ok", or the step that failed.
CreateOutcomes(cfg, stories) ==
    {"ok"}
    \cup (IF env = "crypto_flaky" /\ (cfg.joinCode.text # "" \/ cfg.facilitatorCode.text # "")
          THEN {"encrypt"} ELSE {})
    \cup (IF env = "db_flaky"
          THEN {"begin", "insert_poker", "insert_facilitator", "commit"}
               \cup (IF Len(stories) > 0 THEN {"insert_story"} ELSE {})
          ELSE {})

\* What CreateGame returns when its write ended in `outcome` other than "ok": an
\* encryption or statement error is returned; a failed BeginTx is only logged, and
\* the nil transaction is then dereferenced by tx.QueryRow.
CreateFailure(outcome) ==
    IF outcome = "begin" THEN Panicked(outcome) ELSE Failed(outcome)

\* CreateGame / TeamCreateGame up to the commit: encrypt the codes, build b, and
\* insert the game, its facilitator and its stories in one serializable transaction.
CreateTxWith(p, op, teamID, lists) ==
    /\ pc[p] = "idle" /\ calls < MaxCalls /\ nextID <= MaxGames
    /\ \E facilitatorID \in UserIDs, cfg \in Configs, stories \in lists :
       \E outcome \in CreateOutcomes(cfg, stories) :
          /\ calls' = calls + 1
          /\ IF outcome = "ok"
             THEN /\ poker' = (nextID :> PokerRow(cfg, teamID)) @@ poker
                  /\ poker_facilitator' = (nextID :> <<facilitatorID>>) @@ poker_facilitator
                  /\ poker_story' = (nextID :> StoryRows(stories)) @@ poker_story
                  /\ poker_user' = (nextID :> <<>>) @@ poker_user
                  /\ nextID' = nextID + 1
                  /\ call' = [call EXCEPT ![p] =
                                [op |-> op, pokerID |-> nextID,
                                 userID |-> facilitatorID, cfg |-> cfg, stories |-> stories]]
                  /\ loc' = [loc EXCEPT ![p] =
                               [NoLoc EXCEPT !.created =
                                  [NewPoker(facilitatorID, cfg, teamID) EXCEPT !.ID = nextID]]]
                  /\ Goto(p, "get_cache")
                  /\ ret' = [ret EXCEPT ![p] = NoRet]
             ELSE /\ call' = [call EXCEPT ![p] = [NoCall EXCEPT !.op = op]]
                  /\ loc' = [loc EXCEPT ![p] = NoLoc]
                  /\ Return(p, CreateFailure(outcome), calls + 1)
                  /\ UNCHANGED store
    /\ UNCHANGED <<env, cache>>
    /\ UNCHANGED notService

CreateTx(p, op, teamID) == CreateTxWith(p, op, teamID, StoryLists)

CreateGame(p) == CreateTx(p, "CreateGame", "")
TeamCreateGame(p) == CreateTx(p, "TeamCreateGame", "t1")

\* GetGameByID has a result: it returns to its caller, which for CreateGame is the
\* code after the commit (an error there ends CreateGame with its own b and no error).
GetReturns(p, op, r, n) ==
    IF op \in CreateOps
    THEN IF r.err = "nil"
         THEN /\ Goto(p, "create_set")
              /\ loc' = [loc EXCEPT ![p].b = r.game[1]]
              /\ UNCHANGED ret
         ELSE /\ Return(p, [Ok(loc[p].created, FALSE) EXCEPT !.step = "readback"], n)
              /\ UNCHANGED loc
    ELSE /\ Return(p, r, n)
         /\ UNCHANGED loc

\* GetGameByID called by a client: the call and its cache read.
GetGameByID(p) ==
    /\ pc[p] = "idle" /\ calls < MaxCalls
    /\ \E pokerID \in GameIDs, userID \in UserIDs :
          /\ call' = [call EXCEPT ![p] =
                        [NoCall EXCEPT !.op = "GetGameByID",
                                       !.pokerID = pokerID, !.userID = userID]]
          /\ \E r \in CacheRead(pokerID) :
                IF r.hit
                THEN /\ Return(p, Ok(r.game, TRUE), calls + 1)
                     /\ loc' = [loc EXCEPT ![p] = NoLoc]
                ELSE /\ Goto(p, "get_row")
                     /\ loc' = [loc EXCEPT ![p] = [NoLoc EXCEPT !.incomplete = r.incomplete]]
                     /\ ret' = [ret EXCEPT ![p] = NoRet]
    /\ calls' = calls + 1
    /\ UNCHANGED <<store, env, cache>>
    /\ UNCHANGED notService

\* GetGameByID called by CreateGame after its commit: the cache read.
Get_Cache(p) ==
    /\ pc[p] = "get_cache"
    /\ \E r \in CacheRead(call[p].pokerID) :
          IF r.hit
          THEN GetReturns(p, call[p].op, Ok(r.game, TRUE), calls)
          ELSE /\ Goto(p, "get_row")
               /\ loc' = [loc EXCEPT ![p].incomplete = r.incomplete]
               /\ UNCHANGED ret
    /\ UNCHANGED <<store, env, cache, call, calls>>
    /\ UNCHANGED notService

\* The SELECT of the game row and its facilitators, and the decryption of the codes.
Get_Row(p) ==
    /\ pc[p] = "get_row"
    /\ \E r \in QueryRow(call[p].pokerID, call[p].userID) :
          IF r.err = "nil"
          THEN /\ Goto(p, "get_users")
               /\ loc' = [loc EXCEPT ![p].b = r.b]
               /\ UNCHANGED ret
          ELSE GetReturns(p, call[p].op, Failed("query"), calls)
    /\ UNCHANGED <<store, env, cache, call, calls>>
    /\ UNCHANGED notService

Get_Users(p) ==
    /\ pc[p] = "get_users"
    /\ loc' = [loc EXCEPT ![p].b.Users = GetUsers(call[p].pokerID)]
    /\ Goto(p, "get_stories")
    /\ UNCHANGED <<store, env, cache, call, ret, calls>>
    /\ UNCHANGED notService

Get_Stories(p) ==
    /\ pc[p] = "get_stories"
    /\ loc' = [loc EXCEPT ![p].b.Stories = GetStories(call[p].pokerID, call[p].userID)]
    /\ Goto(p, "get_set")
    /\ UNCHANGED <<store, env, cache, call, ret, calls>>
    /\ UNCHANGED notService

\* The write-back, and the return of b.
Get_Set(p) ==
    /\ pc[p] = "get_set"
    /\ cache' \in GetWriteBack(cache, call[p].pokerID, loc[p].b)
    /\ GetReturns(p, call[p].op, Ok(loc[p].b, FALSE), calls)
    /\ UNCHANGED <<store, env, call, calls>>
    /\ UNCHANGED notService

\* What CreateGame returns after the read-back: its own b.
CreateResult(b, completeGame) == b

\* CreateGame's own cache write of completeGame, and its return.
Create_Set(p) ==
    /\ pc[p] = "create_set"
    /\ cache' \in CreateWriteBack(cache, loc[p].created.ID, loc[p].b)
    /\ Return(p, Ok(CreateResult(loc[p].created, loc[p].b), FALSE), calls)
    /\ UNCHANGED <<store, env, call, loc, calls>>
    /\ UNCHANGED notService

UpdateOutcomes(cfg) ==
    {"ok"}
    \cup (IF env = "crypto_flaky" /\ (cfg.joinCode.text # "" \/ cfg.facilitatorCode.text # "")
          THEN {"encrypt"} ELSE {})
    \cup (IF env = "db_flaky" THEN {"exec"} ELSE {})

\* An UpdateGame that deletes the cache key before it writes, also when the write
\* then fails.
UpdateGame_Mutant(p) ==
    /\ pc[p] = "idle" /\ calls < MaxCalls
    /\ \E pokerID \in GameIDs, cfg \in Configs :
       \E outcome \in UpdateOutcomes(cfg) :
          /\ call' = [call EXCEPT ![p] =
                        [NoCall EXCEPT !.op = "UpdateGame",
                                       !.pokerID = pokerID, !.cfg = cfg]]
          /\ IF outcome = "ok"
             THEN /\ poker' = UpdateRow(poker, pokerID, cfg)
                  /\ Goto(p, "update_del")
                  /\ ret' = [ret EXCEPT ![p] = NoRet]
                  /\ UNCHANGED cache
             ELSE /\ Return(p, Failed(outcome), calls + 1)
                  /\ cache' \in Invalidate(cache, pokerID)
                  /\ UNCHANGED poker
    /\ calls' = calls + 1
    /\ loc' = [loc EXCEPT ![p] = NoLoc]
    /\ UNCHANGED <<poker_facilitator, poker_story, poker_user, nextID, env>>
    /\ UNCHANGED notService

\* UpdateGame up to its UPDATE statement.
UpdateGame(p) ==
    /\ pc[p] = "idle" /\ calls < MaxCalls
    /\ \E pokerID \in GameIDs, cfg \in Configs :
       \E outcome \in UpdateOutcomes(cfg) :
          /\ call' = [call EXCEPT ![p] =
                        [NoCall EXCEPT !.op = "UpdateGame",
                                       !.pokerID = pokerID, !.cfg = cfg]]
          /\ IF outcome = "ok"
             THEN /\ poker' = UpdateRow(poker, pokerID, cfg)
                  /\ Goto(p, "update_del")
                  /\ ret' = [ret EXCEPT ![p] = NoRet]
             ELSE /\ Return(p, Failed(outcome), calls + 1)
                  /\ UNCHANGED poker
    /\ calls' = calls + 1
    /\ loc' = [loc EXCEPT ![p] = NoLoc]
    /\ UNCHANGED <<poker_facilitator, poker_story, poker_user, nextID, env, cache>>
    /\ UNCHANGED notService

\* An UpdateGame that returns an error when its DEL left the cache as it was.
Update_Del_Mutant(p) ==
    /\ pc[p] = "update_del"
    /\ \E c \in Invalidate(cache, call[p].pokerID) :
          /\ cache' = c
          /\ Return(p, IF env = "redis_flaky" /\ c = cache
                       THEN Failed("del") ELSE [NoRet EXCEPT !.err = "nil"], calls)
    /\ UNCHANGED <<store, env, call, loc, calls>>
    /\ UNCHANGED notService

\* UpdateGame's invalidation, and its return.
Update_Del(p) ==
    /\ pc[p] = "update_del"
    /\ cache' \in Invalidate(cache, call[p].pokerID)
    /\ Return(p, [NoRet EXCEPT !.err = "nil"], calls)
    /\ UNCHANGED <<store, env, call, loc, calls>>
    /\ UNCHANGED notService

\* DeleteGame up to its DELETE statement, which removes the game and, with it, the
\* rows that belong to it.
DeleteGame(p) ==
    /\ pc[p] = "idle" /\ calls < MaxCalls
    /\ \E pokerID \in GameIDs :
       \E outcome \in {"ok"} \cup (IF env = "db_flaky" THEN {"exec"} ELSE {}) :
          /\ call' = [call EXCEPT ![p] =
                        [NoCall EXCEPT !.op = "DeleteGame",
                                       !.pokerID = pokerID]]
          /\ IF outcome = "ok"
             THEN /\ poker' = Drop(poker, pokerID)
                  /\ poker_facilitator' = Drop(poker_facilitator, pokerID)
                  /\ poker_story' = Drop(poker_story, pokerID)
                  /\ poker_user' = Drop(poker_user, pokerID)
                  /\ Goto(p, "delete_del")
                  /\ ret' = [ret EXCEPT ![p] = NoRet]
             ELSE /\ Return(p, Failed(outcome), calls + 1)
                  /\ UNCHANGED <<poker, poker_facilitator, poker_story, poker_user>>
    /\ calls' = calls + 1
    /\ loc' = [loc EXCEPT ![p] = NoLoc]
    /\ UNCHANGED <<nextID, env, cache>>
    /\ UNCHANGED notService

\* DeleteGame's invalidation, and its return.
Delete_Del(p) ==
    /\ pc[p] = "delete_del"
    /\ cache' \in Invalidate(cache, call[p].pokerID)
    /\ Return(p, [NoRet EXCEPT !.err = "nil"], calls)
    /\ UNCHANGED <<store, env, call, loc, calls>>
    /\ UNCHANGED notService

Start(p) ==
    \/ CreateGame(p)
    \/ TeamCreateGame(p)
    \/ GetGameByID(p)
    \/ UpdateGame(p)
    \/ DeleteGame(p)

Continue(p) ==
    \/ Get_Cache(p)
    \/ Get_Row(p)
    \/ Get_Users(p)
    \/ Get_Stories(p)
    \/ Get_Set(p)
    \/ Create_Set(p)
    \/ Update_Del(p)
    \/ Delete_Del(p)

Next == \E p \in Procs : Start(p) \/ Continue(p)

Spec == Init /\ [][Next]_vars

\* Calls one after another: a call starts only when no other call is in flight.
Quiescent == \A q \in Procs : pc[q] = "idle"

NextSeq == \E p \in Procs : (Quiescent /\ Start(p)) \/ Continue(p)

SeqSpec == Init /\ [][NextSeq]_vars

\* ------------------------------------------------------------- startup
\* main before it initialises Redis: no client yet.
NotStarted == [stage |-> "start", initErr |-> "", logged |-> FALSE, client |-> FALSE]

\* How InitRedis can end: nil, or the round-trip of its self-test that failed. A
\* Redis that answers passes; one that may fail can fail any of the three.
InitOutcomes == IF env = "healthy" THEN {"nil"} ELSE {"nil", "ping", "set", "get"}

\* The key of InitRedis's self-test, left in Redis once its SET went through.
TestKey == <<"test_connection", 0>>

\* InitRedis: the package's client is assigned before the first round-trip, then
\* PING, SET and GET of a test key; the first failure is returned.
InitRedis ==
    /\ boot.stage = "start"
    /\ \E outcome \in InitOutcomes :
          /\ boot' = [boot EXCEPT !.stage = "redis", !.initErr = outcome, !.client = TRUE]
          /\ cache' = IF outcome \in {"nil", "get"} THEN (TestKey :> "ok") @@ cache
                      ELSE cache
    /\ UNCHANGED <<serviceVars, env, helperVars, actorVars, tally, ai, dnd>>

\* A main that gives up when InitRedis fails.
AfterInit_Mutant(err) == IF err = "nil" THEN "serving" ELSE "exited"

\* main after InitRedis: an error is logged and startup goes on.
AfterInit(err) == "serving"

\* main logs a failed initialisation, then builds the poker service with
\* redis.GetClient() and serves.
Main_Serve ==
    /\ boot.stage = "redis"
    /\ boot' = [boot EXCEPT !.stage = AfterInit(boot.initErr),
                            !.logged = (boot.initErr # "nil")]
    /\ UNCHANGED <<serviceVars, env, cache, helperVars, actorVars, tally, ai, dnd>>

\* The poker service takes calls once main serves.
Serve == boot.stage = "serving" /\ Next

MainInit ==
    /\ ServiceIdle /\ env \in {"healthy", "redis_flaky"}
    /\ boot = NotStarted
    /\ HelpersIdle /\ ActorIdle /\ TallyIdle /\ AiIdle /\ DndIdle

MainNext == InitRedis \/ Main_Serve \/ Serve

MainSpec == MainInit /\ [][MainNext]_vars

\* Creation alone, with up to MaxNewStories initial stories.
NewStoryLists == { [i \in 1..n |-> NewStory(i)] : n \in 0..MaxNewStories }

CreateNext ==
    \E p \in Procs :
        \/ CreateTxWith(p, "CreateGame", "", NewStoryLists)
        \/ CreateTxWith(p, "TeamCreateGame", "t1", NewStoryLists)
        \/ Get_Cache(p)
        \/ Get_Row(p)
        \/ Get_Users(p)
        \/ Get_Stories(p)
        \/ Get_Set(p)
        \/ Create_Set(p)

CreateSpec == Init /\ [][CreateNext]_vars

\* ------------------------------------------------------------- package redis
\* The helpers of package redis, called one at a time on the shared client.
HelperKeys == {CacheKey(id) : id \in GameIDs} \cup {<<"user:", 1>>}
HelperValues == {"v1", "v2"}
HelperPatterns ==
    {[prefix |-> pre, any |-> TRUE, id |-> 0] : pre \in {"game:", "user:", "team:"}}
    \cup {[prefix |-> "game:", any |-> FALSE, id |-> 1]}

\* Whether a Redis command of this call gets through.
Answers == IF env = "redis_flaky" THEN BOOLEAN ELSE {TRUE}

\* A KEYS that answers with every key.
Keys_Mutant(c, pattern) == DOMAIN c

\* KEYS pattern: the keys Redis holds that match.
Keys(c, pattern) ==
    {k \in DOMAIN c : k[1] = pattern.prefix /\ (pattern.any \/ k[2] = pattern.id)}

\* A DEL that does not answer: nothing is removed, an error comes back.
DelFailed(c) == [cache |-> c, n |-> 0, err |-> "error"]

\* A DEL that treats "no key removed" as an error.
DelResult_Mutant(c, keys) ==
    IF keys \cap DOMAIN c = {} THEN DelFailed(c)
    ELSE [cache |-> [k \in DOMAIN c \ keys |-> c[k]],
          n |-> Cardinality(keys \cap DOMAIN c), err |-> "nil"]

\* DEL keys...: the keys are gone, the reply counts those that were there; an absent
\* key is no error.
DelResult(c, keys) ==
    [cache |-> [k \in DOMAIN c \ keys |-> c[k]],
     n |-> Cardinality(keys \cap DOMAIN c), err |-> "nil"]

HelperReturns(op, key, pattern, n, err) ==
    res' = [op |-> op, key |-> key, pattern |-> pattern, n |-> n, err |-> err,
            again |-> res.op = op /\ res.key = key /\ res.pattern = pattern
                      /\ res.err = "nil"]

\* Set: refuses a nil client, else marshals the value and SETs it.
Set ==
    /\ \E key \in HelperKeys, value \in HelperValues, ok \in Answers :
          IF env = "redis_nil" \/ ~ok
          THEN /\ HelperReturns("Set", key, NoPattern, 0, "error")
               /\ UNCHANGED cache
          ELSE /\ cache' = (key :> Marshal(value)) @@ cache
               /\ HelperReturns("Set", key, NoPattern, 0, "nil")
    /\ UNCHANGED <<h, metrics>>
    /\ UNCHANGED notHelper

\* Delete: DEL key on the client, with no test of the client (a nil client is
\* dereferenced).
Delete ==
    /\ \E key \in HelperKeys, ok \in Answers :
          IF env = "redis_nil"
          THEN /\ HelperReturns("Delete", key, NoPattern, 0, "panic")
               /\ UNCHANGED cache
          ELSE LET r == IF ok THEN DelResult(cache, {key}) ELSE DelFailed(cache)
               IN  /\ cache' = r.cache
                   /\ HelperReturns("Delete", key, NoPattern, 0, r.err)
    /\ UNCHANGED <<h, metrics>>
    /\ UNCHANGED notHelper

\* InvalidateByPattern: KEYS pattern, then one DEL of all matches when there are any.
InvalidateByPattern ==
    /\ \E pattern \in HelperPatterns, keysOk \in Answers, delOk \in Answers :
          IF env = "redis_nil" \/ ~keysOk
          THEN /\ HelperReturns("InvalidateByPattern", <<"", 0>>, pattern, 0, "error")
               /\ UNCHANGED cache
          ELSE LET keys == Keys(cache, pattern)
                   r == IF keys = {} THEN [cache |-> cache, n |-> 0, err |-> "nil"]
                        ELSE IF delOk THEN DelResult(cache, keys) ELSE DelFailed(cache)
               IN  /\ cache' = r.cache
                   /\ HelperReturns("InvalidateByPattern", <<"", 0>>, pattern, r.n, r.err)
    /\ UNCHANGED <<h, metrics>>
    /\ UNCHANGED notHelper

HelperInit == Init /\ env \in {"healthy", "redis_nil", "redis_flaky"}

HelperNext == Set \/ Delete \/ InvalidateByPattern

HelperSpec == HelperInit /\ [][HelperNext]_vars

\* ------------------------------------------------------------- callers of package redis
\* The helpers called from several goroutines at once; a helper is one Redis
\* command per step, and the metrics are updated under their mutex.
CallerKeys == {CacheKey(1), <<"user:", 1>>}

\* A call starts: the previous call's record is replaced.
Calling(p, op, key, value) ==
    [NoHelperCall EXCEPT !.op = op, !.key = key, !.value = value, !.n = h[p].n + 1]

CanCall(p) == h[p].pc = "idle" /\ h[p].n < MaxHelperCalls

\* The call returns err, holding out.
Returning(c, out, err) == [c EXCEPT !.pc = "idle", !.out = out, !.err = err]

\* A Get whose every failure counts as a miss.
GetCommand_Mutant(c, ok) ==
    IF env = "redis_nil" THEN [next |-> Returning(c, "", "panic"), found |-> 0, absent |-> 0]
    ELSE IF ~ok THEN [next |-> [c EXCEPT !.pc = "lock_miss"], found |-> 0, absent |-> 0]
    ELSE IF c.key \notin DOMAIN cache
         THEN [next |-> [c EXCEPT !.pc = "lock_miss"], found |-> 0, absent |-> 1]
         ELSE [next |-> [c EXCEPT !.pc = "lock_hit", !.out = Unmarshal(cache[c.key])],
               found |-> 1, absent |-> 0]

\* Get's client.Get(ctx, key).Bytes(): a nil client is dereferenced; redis.Nil
\* goes on to count a miss, another error is returned as it is, data goes on to
\* count a hit, the caller holding what the data decodes to. found and absent tell
\* what Redis answered.
GetCommand(c, ok) ==
    IF env = "redis_nil" THEN [next |-> Returning(c, "", "panic"), found |-> 0, absent |-> 0]
    ELSE IF ~ok THEN [next |-> Returning(c, "", "error"), found |-> 0, absent |-> 0]
    ELSE IF c.key \notin DOMAIN cache
         THEN [next |-> [c EXCEPT !.pc = "lock_miss"], found |-> 0, absent |-> 1]
         ELSE [next |-> [c EXCEPT !.pc = "lock_hit", !.out = Unmarshal(cache[c.key])],
               found |-> 1, absent |-> 0]

\* The GET of a Get, called directly or by GetOrSet.
GetStep(p, c) ==
    \E ok \in Answers :
        LET r == GetCommand(c, ok)
        IN  /\ h' = [h EXCEPT ![p] = r.next]
            /\ metrics' = [metrics EXCEPT !.found = @ + r.found, !.absent = @ + r.absent]
            /\ UNCHANGED <<cache, res>>

Get(p) ==
    /\ CanCall(p)
    /\ \E key \in CallerKeys : GetStep(p, Calling(p, "Get", key, ""))
    /\ UNCHANGED notHelper

\* metrics.mutex.Lock()
Get_Lock(p) ==
    /\ h[p].pc \in {"lock_miss", "lock_hit"} /\ metrics.mutex = ""
    /\ metrics' = [metrics EXCEPT !.mutex = p]
    /\ h' = [h EXCEPT ![p].pc = IF h[p].pc = "lock_miss" THEN "count_miss" ELSE "count_hit"]
    /\ UNCHANGED <<cache, res>>
    /\ UNCHANGED notHelper

\* The increment and metrics.mutex.Unlock(); a miss returns redis.Nil, a hit
\* unmarshals the data into the caller's value.
Get_Count(p) ==
    /\ h[p].pc \in {"count_miss", "count_hit"} /\ metrics.mutex = p
    /\ IF h[p].pc = "count_miss"
       THEN /\ metrics' = [metrics EXCEPT !.MissCount = @ + 1, !.mutex = ""]
            /\ h' = [h EXCEPT ![p] = Returning(h[p], "", "redis.Nil")]
       ELSE /\ metrics' = [metrics EXCEPT !.HitCount = @ + 1, !.mutex = ""]
            /\ h' = [h EXCEPT ![p] = Returning(h[p], h[p].out, "nil")]
    /\ UNCHANGED <<cache, res>>
    /\ UNCHANGED notHelper

\* Exists: EXISTS key on the client, with no test of the client.
ExistsCommand(c, ok) ==
    IF env = "redis_nil" THEN Returning(c, "", "panic")
    ELSE IF ~ok THEN Returning(c, "", "error")
    ELSE Returning([c EXCEPT !.exists = c.key \in DOMAIN cache], "", "nil")

Exists(p) ==
    /\ CanCall(p)
    /\ \E key \in CallerKeys, ok \in Answers :
          h' = [h EXCEPT ![p] = ExistsCommand(Calling(p, "Exists", key, ""), ok)]
    /\ UNCHANGED <<cache, res, metrics>>
    /\ UNCHANGED notHelper

\* Set's part after its test of the client: marshal and SET.
SetStep(p, c) ==
    \E ok \in Answers :
        IF env = "redis_nil" \/ ~ok
        THEN /\ h' = [h EXCEPT ![p] = Returning(c, c.value, "error")]
             /\ UNCHANGED cache
        ELSE /\ h' = [h EXCEPT ![p] = Returning([c EXCEPT !.wrote = TRUE], c.value, "nil")]
             /\ cache' = (c.key :> Marshal(c.value)) @@ cache

SetBy(p) ==
    /\ CanCall(p)
    /\ \E key \in CallerKeys, value \in HelperValues :
          SetStep(p, Calling(p, "Set", key, value))
    /\ UNCHANGED <<res, metrics>>
    /\ UNCHANGED notHelper

\* SetNX: marshal, then SET key value NX on the client, with no test of the client.
SetNX(p) ==
    /\ CanCall(p)
    /\ \E key \in CallerKeys, value \in HelperValues, ok \in Answers :
          LET c == Calling(p, "SetNX", key, value)
          IN  IF env = "redis_nil"
              THEN h' = [h EXCEPT ![p] = Returning(c, value, "panic")] /\ UNCHANGED cache
              ELSE IF ~ok
              THEN h' = [h EXCEPT ![p] = Returning(c, value, "error")] /\ UNCHANGED cache
              ELSE IF key \in DOMAIN cache
              THEN h' = [h EXCEPT ![p] = Returning(c, value, "nil")] /\ UNCHANGED cache
              ELSE /\ h' = [h EXCEPT ![p] = Returning([c EXCEPT !.wrote = TRUE], value, "nil")]
                   /\ cache' = (key :> Marshal(value)) @@ cache
    /\ UNCHANGED <<res, metrics>>
    /\ UNCHANGED notHelper

DeleteBy(p) ==
    /\ CanCall(p)
    /\ \E key \in CallerKeys, ok \in Answers :
          LET c == Calling(p, "Delete", key, "")
          IN  IF env = "redis_nil"
              THEN h' = [h EXCEPT ![p] = Returning(c, "", "panic")] /\ UNCHANGED cache
              ELSE LET r == IF ok THEN DelResult(cache, {key}) ELSE DelFailed(cache)
                   IN  /\ cache' = r.cache
                       /\ h' = [h EXCEPT ![p] = Returning(c, "", r.err)]
    /\ UNCHANGED <<res, metrics>>
    /\ UNCHANGED notHelper

\* GetOrSet up to the answer of Exists: its error is returned, else the call goes
\* on to Set (key absent) or to Get (key present).
GetOrSet(p) ==
    /\ CanCall(p)
    /\ \E key \in CallerKeys, value \in HelperValues, ok \in Answers :
          LET e == ExistsCommand(Calling(p, "GetOrSet", key, value), ok)
          IN  h' = [h EXCEPT ![p] =
                      IF e.err # "nil" THEN e
                      ELSE [e EXCEPT !.err = "",
                                     !.pc = IF e.exists THEN "gos_get" ELSE "gos_set"]]
    /\ UNCHANGED <<cache, res, metrics>>
    /\ UNCHANGED notHelper

\* GetOrSet found no key: return Set(ctx, key, value, expiration).
GetOrSet_Set(p) ==
    /\ h[p].pc = "gos_set"
    /\ SetStep(p, h[p])
    /\ UNCHANGED <<res, metrics>>
    /\ UNCHANGED notHelper

\* GetOrSet found the key: return Get(ctx, key, value).
GetOrSet_Get(p) ==
    /\ h[p].pc = "gos_get"
    /\ GetStep(p, h[p])
    /\ UNCHANGED notHelper

\* The hit rate in percent as the fraction <<numerator, denominator>>.
HitRate(hits, total) == IF total > 0 THEN <<100 * hits, total>> ELSE <<0, 1>>

\* GetCacheStats: under the mutex, the two counters, their sum and the hit rate.
GetCacheStats(p) ==
    /\ CanCall(p) /\ metrics.mutex = ""
    /\ LET totalRequests == metrics.HitCount + metrics.MissCount
       IN  h' = [h EXCEPT ![p] =
                   Returning([Calling(p, "GetCacheStats", <<"", 0>>, "") EXCEPT !.stats =
                                [hit_count |-> metrics.HitCount,
                                 miss_count |-> metrics.MissCount,
                                 total_requests |-> totalRequests,
                                 hit_rate |-> HitRate(metrics.HitCount, totalRequests)]],
                             "", "nil")]
    /\ UNCHANGED <<cache, res, metrics>>
    /\ UNCHANGED notHelper

CallerInit == Init /\ env \in {"healthy", "redis_nil", "redis_flaky"}

CallerNext ==
    \E p \in Procs :
        \/ Get(p) \/ Get_Lock(p) \/ Get_Count(p)
        \/ Exists(p) \/ SetBy(p) \/ SetNX(p) \/ DeleteBy(p)
        \/ GetOrSet(p) \/ GetOrSet_Set(p) \/ GetOrSet_Get(p)
        \/ GetCacheStats(p)

CallerSpec == CallerInit /\ [][CallerNext]_vars

\* InvalidateByPattern up to the answer of KEYS: a nil client and a failed KEYS
\* return (0, error), no match returns (0, nil), else the call goes on to DEL.
InvalidateByPattern_Keys(p) ==
    /\ CanCall(p)
    /\ \E pattern \in HelperPatterns, ok \in Answers :
          LET c == [Calling(p, "InvalidateByPattern", <<"", 0>>, "") EXCEPT
                       !.pattern = pattern, !.before = DOMAIN cache]
              keys == Keys(cache, pattern)
          IN  h' = [h EXCEPT ![p] =
                      IF env = "redis_nil" \/ ~ok THEN Returning(c, "", "error")
                      ELSE IF keys = {} THEN Returning(c, "", "nil")
                      ELSE [c EXCEPT !.pc = "ibp_del", !.keys = keys]]
    /\ UNCHANGED <<cache, res, metrics>>
    /\ UNCHANGED notHelper

\* InvalidateByPattern's DEL of the keys KEYS gave: its count is returned, its
\* error is returned with 0.
InvalidateByPattern_Del(p) ==
    /\ h[p].pc = "ibp_del"
    /\ \E ok \in Answers :
          LET r == IF ok THEN DelResult(cache, h[p].keys) ELSE DelFailed(cache)
          IN  /\ cache' = r.cache
              /\ h' = [h EXCEPT ![p] = Returning([h[p] EXCEPT !.deleted = r.n], "", r.err)]
    /\ UNCHANGED <<res, metrics>>
    /\ UNCHANGED notHelper

\* InvalidateByPattern called while other goroutines set and delete keys.
InvalidateNext ==
    \E p \in Procs :
        \/ InvalidateByPattern_Keys(p) \/ InvalidateByPattern_Del(p)
        \/ SetBy(p) \/ DeleteBy(p)

InvalidateSpec == CallerInit /\ [][InvalidateNext]_vars

\* GetOrSet alone: every caller calls GetOrSet, nothing else writes.
GetOrSetNext ==
    \E p \in Procs :
        \/ GetOrSet(p) \/ GetOrSet_Set(p) \/ GetOrSet_Get(p)
        \/ Get_Lock(p) \/ Get_Count(p)

GetOrSetSpec == CallerInit /\ [][GetOrSetNext]_vars

\* ------------------------------------------------------------- session actor
\* The operations of the Session Actor, as functions of the session.
IndexOf(seq, x) == CHOOSE k \in 1..Len(seq) : seq[k] = x
Without(seq, x) == SelectSeq(seq, LAMBDA y : y # x)

\* The items in queue order.
Order(s) == [k \in 1..MaxItems |-> CHOOSE i \in Items : s.position[i] = k - 1]

\* A reorder that gives the moved item its sibling's position and shifts nothing.
Reordered_Mutant(o, item, before) ==
    IF before = 0 THEN Append(Without(o, item), item)
    ELSE [k \in 1..Len(o) |-> IF o[k] = before THEN item ELSE o[k]]

\* The queue with item moved to stand immediately before the named sibling, or to
\* the tail when none is named.
Reordered(o, item, before) ==
    LET rest == Without(o, item)
    IN  IF before = 0 THEN Append(rest, item)
        ELSE LET k == IndexOf(rest, before)
             IN  SubSeq(rest, 1, k - 1) \o <<item>> \o SubSeq(rest, k, Len(rest))

\* ReorderItem: positions recomputed as a contiguous sequence over the new order.
ReorderItem(s, item, before) ==
    LET o == Reordered(Order(s), item, before)
    IN  [s EXCEPT !.position =
            [i \in Items |-> IF \E k \in 1..Len(o) : o[k] = i
                             THEN IndexOf(o, i) - 1 ELSE @[i]]]

\* Every live participant who is not spectating has a vote on the active item.
AllVoted(s) ==
    \A u \in Participants :
        (s.live[u] /\ ~s.spectating[u]) => u \in DOMAIN s.votes[s.active]

\* An auto-finish check that is left to a later, separately scheduled step.
AutoFinish_Mutant(s) == s

\* The auto-finish rule, evaluated in the mutation that recorded the vote.
AutoFinish(s) ==
    IF s.autoFinish /\ AllVoted(s) THEN [s EXCEPT !.locked = TRUE] ELSE s

\* SubmitVote, once accepted: record or overwrite the vote, then auto-finish.
SubmitVote(s, who, value) ==
    AutoFinish([s EXCEPT !.votes[s.active] = (who :> value) @@ @])

\* An activation that leaves the votes of the item it deactivates.
ActivateItem_Mutant(s, item) ==
    [s EXCEPT !.votes[item] = <<>>, !.active = item, !.locked = FALSE]

\* ActivateItem: the previous active item loses its votes, the new one starts with
\* none, voting opens.
ActivateItem(s, item) ==
    [s EXCEPT !.votes = [i \in Items |-> IF i \in {s.active, item} THEN <<>> ELSE @[i]],
              !.active = item, !.locked = FALSE]

\* The tally's recommended value for the active item, not computed here.
Recommended(votes) == "recommended"

\* FinalizeVoting: lock, set the final value, clear the item's votes.
FinalizeVoting(s, forcedValue) ==
    [s EXCEPT !.locked = TRUE,
              !.points[s.active] = IF forcedValue # "" THEN forcedValue
                                   ELSE Recommended(s.votes[s.active]),
              !.votes[s.active] = <<>>]

\* An abandon that also erases what the participant voted.
AbandonParticipant_Mutant(s, who) ==
    [s EXCEPT !.live[who] = FALSE,
              !.votes = [i \in Items |-> [u \in DOMAIN @[i] \ {who} |-> @[i][u]]]]

\* AbandonParticipant: liveness off, nothing else.
AbandonParticipant(s, who) == [s EXCEPT !.live[who] = FALSE]

\* The validation every operation passes before it mutates (else ValidationError).
Valid(s, r) ==
    CASE r.type = "SubmitVote" -> ~s.locked /\ s.active # 0 /\ r.value \in Scale
      [] r.type = "ActivateItem" -> r.item \in Items /\ s.points[r.item] = ""
      [] r.type = "FinalizeVoting" -> s.active # 0
      [] r.type = "ReorderItem" -> r.item \in Items /\ r.before \in Items \cup {0}
      [] r.type = "AbandonParticipant" -> r.who \in Participants

Effect(s, r) ==
    CASE r.type = "SubmitVote" -> SubmitVote(s, r.who, r.value)
      [] r.type = "ActivateItem" -> ActivateItem(s, r.item)
      [] r.type = "FinalizeVoting" -> FinalizeVoting(s, r.value)
      [] r.type = "ReorderItem" -> ReorderItem(s, r.item, r.before)
      [] r.type = "AbandonParticipant" -> AbandonParticipant(s, r.who)

\* ------------------------------------------------------------- hub and queue
\* Requests accepted so far: those processed and those waiting.
Accepted == Len(applied) + Len(inbox)

FromClients(q) == SelectSeq(q, LAMBDA r : r.type # "AbandonParticipant")
ClientRequestsAccepted == Len(FromClients(applied)) + Len(FromClients(inbox))

\* A connection hands a request to the session's queue, which takes it at the tail.
Accept ==
    /\ ClientRequestsAccepted < MaxRequests /\ Len(inbox) < MaxInbox
    /\ \E r \in ClientRequests :
          /\ r.type = "SubmitVote" => conns[r.who].attached
          /\ inbox' = Append(inbox, [r EXCEPT !.seq = Accepted + 1])
    /\ UNCHANGED <<session, applied, events, conns>>
    /\ UNCHANGED notActor

\* A queue served from its tail.
NextRequest_Mutant(q) == q[Len(q)]

\* The request the Session Actor takes next: the oldest one waiting.
NextRequest(q) == Head(q)

\* The connections that cannot take one more event: their outbound queue is full.
Overflowing(c) == {u \in Participants : c[u].attached /\ Len(c[u].outq) >= MaxQueue}

\* A fan-out that waits for room instead of dropping: nobody gets the event while a
\* queue is full.
Broadcast_Mutant(c, event) ==
    IF Overflowing(c) # {} THEN c
    ELSE [u \in Participants |->
            IF c[u].attached THEN [c[u] EXCEPT !.outq = Append(@, event)] ELSE c[u]]

\* The Hub's fan-out of one event: every attached connection gets it at the tail of
\* its outbound queue; a connection whose queue is full is dropped instead.
Broadcast(c, event) ==
    [u \in Participants |->
        IF ~c[u].attached THEN c[u]
        ELSE IF u \in Overflowing(c)
             THEN [c[u] EXCEPT !.attached = FALSE, !.outq = <<>>]
             ELSE [c[u] EXCEPT !.outq = Append(@, event)]]

\* The AbandonParticipant requests the Hub queues for the connections it dropped,
\* numbered from n + 1.
RECURSIVE AbandonRequests(_, _)
AbandonRequests(dropped, n) ==
    IF dropped = {} THEN <<>>
    ELSE LET u == CHOOSE x \in dropped : TRUE
         IN  <<[Request("AbandonParticipant", u, 0, 0, "") EXCEPT !.seq = n + 1]>>
             \o AbandonRequests(dropped \ {u}, n + 1)

\* The Session Actor processes one request: validate, mutate, emit the event, which
\* the Hub fans out in the same step.
Apply ==
    /\ inbox # <<>>
    /\ LET r == NextRequest(inbox)
           ok == Valid(session, r)
           rest == Without(inbox, r)
       IN  /\ applied' = Append(applied, [seq |-> r.seq, type |-> r.type, ok |-> ok])
           /\ IF ok
              THEN /\ session' = Effect(session, r)
                   /\ events' = Append(events, r.seq)
                   /\ conns' = Broadcast(conns, r.seq)
                   /\ inbox' = rest \o AbandonRequests(Overflowing(conns), Accepted)
              ELSE /\ inbox' = rest
                   /\ UNCHANGED <<session, events, conns>>
    /\ UNCHANGED notActor

\* A client takes the next event from its connection.
Receive ==
    /\ \E u \in Participants :
          /\ conns[u].attached /\ conns[u].outq # <<>>
          /\ conns' = [conns EXCEPT ![u].delivered = Append(@, Head(conns[u].outq)),
                                     ![u].outq = Tail(@)]
    /\ UNCHANGED <<session, inbox, applied, events>>
    /\ UNCHANGED notActor

ActorInit ==
    /\ ServiceIdle /\ env = "healthy"
    /\ boot = Serving(env)
    /\ HelpersIdle /\ TallyIdle /\ AiIdle /\ DndIdle
    /\ \E autoFinish \in BOOLEAN : session = InitialSession(autoFinish, {"u3"})
    /\ inbox = <<>>
    /\ applied = <<>>
    /\ events = <<>>
    /\ conns = [u \in Participants |-> NewConn]

ActorNext == Accept \/ Apply \/ Receive

ActorSpec == ActorInit /\ [][ActorNext]_vars

\* ------------------------------------------------------------- tally engine
\* The Vote Tally Engine: a pure function of the votes on the active item.
NumericValue == ("1" :> 1) @@ ("2" :> 2) @@ ("3" :> 3)
HalfToken == "1/2"
UnsureToken == "?"
\* What a participant may have submitted: numbers, the half point, "unsure", and
\* another token that is no number.
Tokens == DOMAIN NumericValue \cup {HalfToken, UnsureToken, "coffee"}

IsNumeric(token) == token \in DOMAIN NumericValue \/ token = HalfToken

\* A vote's contribution to the mean, in half points.
HalfPoints(token) == IF token = HalfToken THEN 1 ELSE 2 * NumericValue[token]

RECURSIVE SumHalfPoints(_, _)
SumHalfPoints(votes, voters) ==
    IF voters = {} THEN 0
    ELSE LET u == CHOOSE x \in voters : TRUE
         IN  HalfPoints(votes[u]) + SumHalfPoints(votes, voters \ {u})

\* A mean that is zero when nobody voted a number.
Average_Mutant(sum, count) == IF count = 0 THEN <<0, 2>> ELSE <<sum, 2 * count>>

\* The arithmetic mean as the fraction <<numerator, denominator>> (the sum is in
\* half points), and <<>> for null when there is no numeric vote.
Average(sum, count) == IF count = 0 THEN <<>> ELSE <<sum, 2 * count>>

Tally(votes) ==
    LET numeric == {u \in DOMAIN votes : IsNumeric(votes[u])}
    IN  [votes |-> votes, done |-> TRUE,
         average |-> Average(SumHalfPoints(votes, numeric), Cardinality(numeric)),
         undecided |-> Cardinality(DOMAIN votes \ numeric),
         panicked |-> FALSE]

\* A participant submits or overwrites a vote; the aggregate is then out of date.
CastVote ==
    /\ \E u \in Participants, token \in Tokens :
          tally' = [NoTally EXCEPT !.votes = (u :> token) @@ tally.votes]
    /\ UNCHANGED <<serviceVars, env, cache, helperVars, actorVars, boot, ai, dnd>>

\* The Session Actor asks for the aggregate of the votes as they stand.
RecomputeTally ==
    /\ ~tally.done
    /\ tally' = Tally(tally.votes)
    /\ UNCHANGED <<serviceVars, env, cache, helperVars, actorVars, boot, ai, dnd>>

TallyInit == Init /\ env = "healthy"

TallyNext == CastVote \/ RecomputeTally

TallySpec == TallyInit /\ [][TallyNext]_vars

\* ------------------------------------------------------------- package ai
\* A string is the sequence of its characters. math.MaxInt32.
MaxInt32 == 2147483647

DigitValue ==
    [d \in {"0", "1", "2", "3", "4", "5", "6", "7", "8", "9"} |->
        CASE d = "0" -> 0 [] d = "1" -> 1 [] d = "2" -> 2 [] d = "3" -> 3 [] d = "4" -> 4
          [] d = "5" -> 5 [] d = "6" -> 6 [] d = "7" -> 7 [] d = "8" -> 8 [] d = "9" -> 9]

RECURSIVE Decimal(_)
Decimal(s) ==
    IF s = <<>> THEN 0
    ELSE 10 * Decimal(SubSeq(s, 1, Len(s) - 1)) + DigitValue[s[Len(s)]]

\* strconv.Atoi on an unsigned text: an error unless it is one or more digits.
Atoi(s) ==
    IF s # <<>> /\ \A i \in 1..Len(s) : s[i] \in DOMAIN DigitValue
    THEN [err |-> FALSE, n |-> Decimal(s)]
    ELSE [err |-> TRUE, n |-> 0]

Unsure == <<"?">>
Coffee == <<"c">>
Half == <<"1", "/", "2">>
One == <<"1">>

\* for _, p := range list { if p == x { ... } }
InList(x, list) == \E i \in 1..Len(list) : list[i] = x

Returns(out) == [panic |-> FALSE, out |-> out]
IndexOutOfRange == [panic |-> TRUE, out |-> <<>>]

\* "?" when it is available, else availablePoints[len(availablePoints)-1].
UnsureOrLast(availablePoints) ==
    IF InList(Unsure, availablePoints) THEN Returns(Unsure)
    ELSE IF availablePoints = <<>> THEN IndexOutOfRange
    ELSE Returns(availablePoints[Len(availablePoints)])

AbsDiff(a, b) == IF a >= b THEN a - b ELSE b - a

\* The loop of the numeric comparison from the i-th available point on: "?",
\* the coffee cup, "1/2" and every point Atoi refuses are skipped, and a point
\* replaces closest when its difference is below minDiff.
RECURSIVE ClosestLoop(_, _, _, _, _)
ClosestLoop(num, availablePoints, i, closest, minDiff) ==
    IF i > Len(availablePoints) THEN closest
    ELSE LET p == availablePoints[i]
             pNum == Atoi(p)
             diff == AbsDiff(pNum.n, num)
         IN  IF p \in {Unsure, Coffee, Half} \/ pNum.err
             THEN ClosestLoop(num, availablePoints, i + 1, closest, minDiff)
             ELSE IF diff < minDiff
             THEN ClosestLoop(num, availablePoints, i + 1, p, diff)
             ELSE ClosestLoop(num, availablePoints, i + 1, closest, minDiff)

findClosestPoint(point, availablePoints) ==
    IF InList(point, availablePoints) THEN Returns(point)
    ELSE IF point \in {Unsure, Coffee} THEN UnsureOrLast(availablePoints)
    ELSE IF point = Half /\ InList(Half, availablePoints) THEN Returns(Half)
    ELSE IF point = Half /\ InList(One, availablePoints) THEN Returns(One)
    ELSE IF Atoi(point).err THEN UnsureOrLast(availablePoints)
    ELSE Returns(ClosestLoop(Atoi(point).n, availablePoints, 1, Unsure, MaxInt32))

\* The points a list of available points is made of, and the points asked for.
AvailablePointSet == {<<"0">>, One, <<"3">>, <<"5">>, Half, Unsure, Coffee}
ClosestPoints ==
    AvailablePointSet \cup {<<"2">>, <<"4">>, <<"X">>,
                            <<"2", "1", "4", "7", "4", "8", "3", "6", "4", "7">>}

RECURSIVE SeqsUpTo(_, _)
SeqsUpTo(S, n) ==
    IF n = 0 THEN {<<>>}
    ELSE LET shorter == SeqsUpTo(S, n - 1)
         IN  shorter \cup {Append(q, x) : q \in shorter, x \in S}

AiCall(fn, content, point, availablePoints) ==
    [NoAi EXCEPT !.fn = fn, !.content = content, !.point = point,
                 !.availablePoints = availablePoints]

\* findClosestPoint is called with a point and a list of available points.
FindClosestPoint ==
    /\ ai.fn = "findClosestPoint" /\ ~ai.done
    /\ LET r == findClosestPoint(ai.point, ai.availablePoints)
       IN  ai' = [ai EXCEPT !.done = TRUE, !.panicked = r.panic, !.out = r.out]
    /\ UNCHANGED <<serviceVars, env, cache, helperVars, actorVars, boot, tally, dnd>>

AiIdleElse ==
    /\ ServiceIdle /\ env = "healthy" /\ cache = <<>> /\ boot = Serving(env)
    /\ HelpersIdle /\ ActorIdle /\ TallyIdle /\ DndIdle

ClosestInit ==
    /\ AiIdleElse
    /\ ai \in {AiCall("findClosestPoint", <<>>, point, availablePoints) :
                 point \in ClosestPoints,
                 availablePoints \in SeqsUpTo(AvailablePointSet, MaxAvailable)}

ClosestNext == FindClosestPoint

ClosestSpec == ClosestInit /\ [][ClosestNext]_vars

\* The texts an AI answers with, as sequences of pieces: the braces, the member
\* "suggestedPoint":"5" (J5) and "suggestedPoint":"?" (J?), the member
\* ,"reason":"x" (R), the declaration prefix "点数: " (P), the reason prefix
\* "理由:" (r), the digit 5, the question mark, the letter x (w) and the space;
\* "#" is what is left of a piece that a slice or a replacement cut.
Pieces == {"{", "}", "J5", "J?", "R", "P", "r", "5", "?", "w", " "}

\* len(piece) in bytes.
Width(x) ==
    CASE x \in {"J5", "J?"} -> 20
      [] x = "R" -> 13
      [] x = "P" -> 8
      [] x = "r" -> 7
      [] OTHER -> 1

RECURSIVE Bytes(_)
Bytes(t) == IF t = <<>> THEN 0 ELSE Width(Head(t)) + Bytes(Tail(t))

\* strings.TrimSpace.
RECURSIVE TrimLeft(_)
TrimLeft(t) == IF t # <<>> /\ Head(t) = " " THEN TrimLeft(Tail(t)) ELSE t

RECURSIVE TrimRight(_)
TrimRight(t) ==
    IF t # <<>> /\ t[Len(t)] = " " THEN TrimRight(SubSeq(t, 1, Len(t) - 1)) ELSE t

TrimSpace(t) == TrimRight(TrimLeft(t))

\* strings.Index and strings.LastIndex of a one-byte text, as the position of the
\* piece (0 when there is none) and as the byte offset Go gives (-1 when none).
Index(t, x) ==
    IF \E i \in 1..Len(t) : t[i] = x
    THEN CHOOSE i \in 1..Len(t) : t[i] = x /\ \A j \in 1..(i - 1) : t[j] # x
    ELSE 0

LastIndex(t, x) ==
    IF \E i \in 1..Len(t) : t[i] = x
    THEN CHOOSE i \in 1..Len(t) : t[i] = x /\ \A j \in (i + 1)..Len(t) : t[j] # x
    ELSE 0

ByteOffset(t, i) == IF i = 0 THEN -1 ELSE Bytes(SubSeq(t, 1, i - 1))

\* t[:n] and t[n:] for a byte offset n <= len(t).
RECURSIVE SliceTo(_, _)
SliceTo(t, n) ==
    IF n = 0 \/ t = <<>> THEN <<>>
    ELSE IF Width(Head(t)) <= n THEN <<Head(t)>> \o SliceTo(Tail(t), n - Width(Head(t)))
    ELSE <<"#">>

RECURSIVE SliceFrom(_, _)
SliceFrom(t, n) ==
    IF n = 0 \/ t = <<>> THEN t
    ELSE IF Width(Head(t)) <= n THEN SliceFrom(Tail(t), n - Width(Head(t)))
    ELSE <<"#">> \o Tail(t)

\* strings.Contains(t, pattern).
ContainsText(t, pattern) ==
    \E i \in 1..(Len(t) - Len(pattern) + 1) :
        SubSeq(t, i, i + Len(pattern) - 1) = pattern

\* The point a suggestedPoint member holds.
MemberPoint(x) == IF x = "J5" THEN <<"5">> ELSE Unsure

\* json.Unmarshal of a text that starts with "{" and ends with "}" into a
\* PointSuggestionResponse: an object of no member, of a suggestedPoint member, or
\* of a suggestedPoint and a reason member, spaces between them allowed.
UnmarshalResponse(t) ==
    LET inner == SelectSeq(SubSeq(t, 2, Len(t) - 1), LAMBDA x : x # " ")
        failed == [err |-> TRUE, SuggestedPoint |-> <<>>, Reason |-> <<>>]
    IN  IF inner = <<>> THEN [err |-> FALSE, SuggestedPoint |-> <<>>, Reason |-> <<>>]
        ELSE IF inner[1] \notin {"J5", "J?"} THEN failed
        ELSE IF Len(inner) = 1
        THEN [err |-> FALSE, SuggestedPoint |-> MemberPoint(inner[1]), Reason |-> <<>>]
        ELSE IF Len(inner) = 2 /\ inner[2] = "R"
        THEN [err |-> FALSE, SuggestedPoint |-> MemberPoint(inner[1]), Reason |-> <<"w">>]
        ELSE failed

\* The JSON part of a content: from the first "{" to the last "}".
JsonPart(content) ==
    LET jsonStart == Index(content, "{")
        jsonEnd == LastIndex(content, "}")
    IN  IF jsonStart >= 1 /\ jsonEnd > jsonStart
        THEN [found |-> TRUE, jsonStart |-> ByteOffset(content, jsonStart),
              jsonEnd |-> ByteOffset(content, jsonEnd),
              response |-> UnmarshalResponse(SubSeq(content, jsonStart, jsonEnd))]
        ELSE [found |-> FALSE, jsonStart |-> ByteOffset(content, jsonStart),
              jsonEnd |-> ByteOffset(content, jsonEnd),
              response |-> [err |-> TRUE, SuggestedPoint |-> <<>>, Reason |-> <<>>]]

\* regexp.ReplaceAllString(reason, "") for "点数: [0-9?]+" and for
\* suggestedPoint":"[0-9?]+" (which leaves the quote before the member); the
\* texts hold none of the other two declaration phrases.
RECURSIVE DropRun(_)
DropRun(t) == IF t # <<>> /\ Head(t) \in {"5", "?"} THEN DropRun(Tail(t)) ELSE t

RECURSIVE RemoveDeclarations(_)
RemoveDeclarations(t) ==
    IF t = <<>> THEN <<>>
    ELSE IF Head(t) = "P" /\ Len(t) >= 2 /\ t[2] \in {"5", "?"}
    THEN RemoveDeclarations(DropRun(Tail(t)))
    ELSE <<Head(t)>> \o RemoveDeclarations(Tail(t))

RemoveMembers(t) == [i \in 1..Len(t) |-> IF t[i] \in {"J5", "J?"} THEN "#" ELSE t[i]]

\* reason[:300] + "..." for a longer reason.
Limit(t) == IF Bytes(t) > 300 THEN SliceTo(t, 300) \o <<".", ".", ".">> ELSE t

SliceOutOfRange == [panic |-> TRUE, reason |-> <<>>]
Reason(t) == [panic |-> FALSE, reason |-> t]

\* extractReason: the reason member of the JSON part; else what follows "理由:";
\* else the content without its point declarations and without the bytes between
\* jsonStart and jsonEnd, which are offsets into the content as it was.
extractReason(content) ==
    LET json == JsonPart(content)
        reason == RemoveMembers(RemoveDeclarations(content))
    IN  IF json.found /\ ~json.response.err /\ json.response.Reason # <<>>
        THEN Reason(json.response.Reason)
        ELSE IF Index(content, "r") > 0
        THEN Reason(TrimSpace(Limit(SliceFrom(content,
                        ByteOffset(content, Index(content, "r")) + Width("r")))))
        ELSE IF ~json.found THEN Reason(Limit(TrimSpace(reason)))
        ELSE IF json.jsonStart > 0
        THEN IF json.jsonStart > Bytes(reason) THEN SliceOutOfRange
             ELSE Reason(Limit(TrimSpace(
                      SliceTo(reason, json.jsonStart)
                      \o (IF json.jsonEnd + 1 < Bytes(reason)
                          THEN SliceFrom(reason, json.jsonEnd + 1) ELSE <<>>))))
        ELSE IF json.jsonEnd + 1 > Bytes(reason) THEN SliceOutOfRange
             ELSE Reason(Limit(TrimSpace(SliceFrom(reason, json.jsonEnd + 1))))

\* findNumberInContent: the first run of digits, "" when there is none.
RECURSIVE DigitRun(_)
DigitRun(t) == IF t # <<>> /\ Head(t) = "5" THEN <<"5">> \o DigitRun(Tail(t)) ELSE <<>>

RECURSIVE findNumberInContent(_)
findNumberInContent(content) ==
    IF content = <<>> THEN <<>>
    ELSE IF Head(content) = "J5" THEN <<"5">>
    ELSE IF Head(content) = "5" THEN DigitRun(content)
    ELSE findNumberInContent(Tail(content))

\* Whether the content declares the point in one of the phrases parseAIResponse
\* looks for: "点数: " before it or suggestedPoint":" before it.
Declares(content, point) ==
    \/ ContainsText(content, <<"P">> \o point)
    \/ \E i \in 1..Len(content) :
          content[i] \in {"J5", "J?"} /\ MemberPoint(content[i]) = point

Parsed(out, reason) == [panic |-> FALSE, out |-> out, reason |-> reason]
ParsePanics == [panic |-> TRUE, out |-> <<>>, reason |-> <<>>]

\* return point, extractReason(content)
WithReason(closest, content) ==
    IF closest.panic \/ extractReason(content).panic THEN ParsePanics
    ELSE Parsed(closest.out, extractReason(content).reason)

parseAIResponse(text, availablePoints) ==
    LET content == TrimSpace(text)
        json == JsonPart(content)
        response == json.response
        declared == {i \in 1..Len(availablePoints) : Declares(content, availablePoints[i])}
        foundNumber == findNumberInContent(content)
    IN  IF json.found /\ ~response.err /\ response.SuggestedPoint # <<>>
        THEN IF InList(response.SuggestedPoint, availablePoints)
             THEN Parsed(response.SuggestedPoint, response.Reason)
             ELSE LET closestPoint == findClosestPoint(response.SuggestedPoint, availablePoints)
                  IN  IF closestPoint.panic THEN ParsePanics
                      ELSE Parsed(closestPoint.out, response.Reason)
        ELSE IF declared # {}
        THEN WithReason(Returns(availablePoints[CHOOSE i \in declared :
                                                  \A j \in declared : i <= j]), content)
        ELSE IF foundNumber # <<>>
        THEN WithReason(findClosestPoint(foundNumber, availablePoints), content)
        ELSE WithReason(Returns(Unsure), content)

ParsePointSet == {<<"5">>, <<"8">>, Unsure}

\* parseAIResponse is called with the text of an AI answer and the available points.
ParseAIResponse ==
    /\ ai.fn = "parseAIResponse" /\ ~ai.done
    /\ LET r == parseAIResponse(ai.content, ai.availablePoints)
       IN  ai' = [ai EXCEPT !.done = TRUE, !.panicked = r.panic, !.out = r.out,
                            !.reason = r.reason]
    /\ UNCHANGED <<serviceVars, env, cache, helperVars, actorVars, boot, tally, dnd>>

ParseInit ==
    /\ AiIdleElse
    /\ ai \in {AiCall("parseAIResponse", content, <<>>, availablePoints) :
                 content \in SeqsUpTo(Pieces, MaxContent),
                 availablePoints \in SeqsUpTo(ParsePointSet, MaxParsePoints)}

ParseNext == ParseAIResponse

ParseSpec == ParseInit /\ [][ParseNext]_vars

\* ------------------------------------------------------------- SuggestPoints
\* http.Error(w, ..., code), and the suggestion written with status 200.
ErrorResponse(code) == [status |-> code, suggestion |-> FALSE, point |-> <<>>]
SuggestionResponse(point) == [status |-> 200, suggestion |-> TRUE, point |-> point]

\* The handler writes a response and returns.
Responds(response) ==
    [ai.req EXCEPT !.pc = "returned", !.written = Append(@, response)]

Checked(name, next) == [ai.req EXCEPT !.pc = next, !.checks = Append(@, name)]

AiUnchanged == UNCHANGED <<serviceVars, env, cache, helperVars, actorVars, boot, tally, dnd>>

\* if r.Method != http.MethodPost: 405.
SuggestPoints_Method ==
    /\ ai.req.pc = "method"
    /\ ai' = [ai EXCEPT !.req =
                 IF ai.req.method # "POST"
                 THEN [Checked("method", "returned") EXCEPT
                          !.written = Append(@, ErrorResponse(405))]
                 ELSE Checked("method", "decode")]
    /\ AiUnchanged

\* json.NewDecoder(r.Body).Decode(&req): 400 when it fails.
SuggestPoints_Decode ==
    /\ ai.req.pc = "decode"
    /\ ai' = [ai EXCEPT !.req =
                 IF ~ai.req.decodes
                 THEN [Checked("body", "returned") EXCEPT
                          !.written = Append(@, ErrorResponse(400))]
                 ELSE Checked("body", "configured")]
    /\ AiUnchanged

\* if s.AiApiUrl == "": 500.
SuggestPoints_Configured ==
    /\ ai.req.pc = "configured"
    /\ ai' = [ai EXCEPT !.req =
                 IF ai.req.url = ""
                 THEN [Checked("url", "returned") EXCEPT
                          !.written = Append(@, ErrorResponse(500))]
                 ELSE Checked("url", "call")]
    /\ AiUnchanged

\* The statuses the AI API answers with, and the bodies: a text that is no
\* HuggingFaceResponse, one with a generated text, one without.
AiStatuses == {200, 503}
AiBodies == {"text", "generated", "empty"}

\* The prompt is built and marshalled, http.NewRequest refuses a URL it cannot
\* parse (500), and client.Do calls the API: 500 when it fails, else the answer is
\* there to be read.
SuggestPoints_Call ==
    /\ ai.req.pc = "call"
    /\ \/ /\ ai.req.url = "invalid"
          /\ ai' = [ai EXCEPT !.req = Responds(ErrorResponse(500))]
       \/ /\ ai.req.url # "invalid"
          /\ \E answered \in BOOLEAN, status \in AiStatuses :
                ai' = [ai EXCEPT !.req =
                         IF answered
                         THEN [ai.req EXCEPT !.pc = "read", !.aiCalls = @ + 1,
                                             !.aiStatus = status]
                         ELSE [Responds(ErrorResponse(500)) EXCEPT !.aiCalls = @ + 1]]
    /\ AiUnchanged

\* The rest of the handler: ioutil.ReadAll (500 when it fails), the status (500
\* unless 200), then the body: a body that is no HuggingFaceResponse is given to
\* parseAIResponse as it is, one with a generated text gives that text to
\* parseAIResponse, and what parseAIResponse returns is written; a body with no or
\* an empty generated text is answered with 500. A panic of parseAIResponse ends the handler with
\* nothing written.
SuggestPoints_Respond ==
    /\ ai.req.pc = "read"
    /\ \E read \in BOOLEAN, body \in AiBodies :
          LET r == parseAIResponse(ai.content, ai.availablePoints)
          IN  IF \/ ~read \/ ai.req.aiStatus # 200 \/ body = "empty"
                 \/ (body = "generated" /\ ai.content = <<>>)
              THEN ai' = [ai EXCEPT !.req = Responds(ErrorResponse(500))]
              ELSE IF r.panic
              THEN ai' = [ai EXCEPT !.panicked = TRUE, !.req.pc = "panicked"]
              ELSE ai' = [ai EXCEPT !.out = r.out, !.reason = r.reason,
                                    !.req = Responds(SuggestionResponse(r.out))]
    /\ AiUnchanged

\* The texts the AI API answers with and the lists of available points a request
\* carries.
AiTexts == {<<>>, <<"w">>, <<"{", "J5", "R", "}">>, <<"{", "J?", "}">>, <<"P", "5", "{", "}">>, <<"5", "5">>}
RequestedPoints == {<<>>, <<<<"5">>>>, <<<<"5">>, <<"8">>, Unsure>>}

SuggestInit ==
    /\ AiIdleElse
    /\ ai \in {[AiCall("SuggestPoints", content, <<>>, availablePoints) EXCEPT
                   !.req = [NoReq EXCEPT !.pc = "method", !.method = method,
                                         !.decodes = decodes, !.url = url]] :
                 content \in AiTexts, availablePoints \in RequestedPoints,
                 method \in {"GET", "POST"}, decodes \in BOOLEAN,
                 url \in {"", "invalid", "https://ai"}}

SuggestNext ==
    \/ SuggestPoints_Method
    \/ SuggestPoints_Decode
    \/ SuggestPoints_Configured
    \/ SuggestPoints_Call
    \/ SuggestPoints_Respond

SuggestSpec == SuggestInit /\ [][SuggestNext]_vars

\* ------------------------------------------------------------- the story list
StoryIDs == {"s1", "s2", "s3", "s4"}
Tabs == {"unpointed", "pointed", "all"}

\* The lists of distinct stories.
PlanLists ==
    {l \in SeqsUpTo(StoryIDs, MaxPlans) : \A i, j \in 1..Len(l) : l[i] = l[j] => i = j}

\* plans.indexOf(plans.find(i => i.id === storyId)): 0 stands for no match.
PlanIndex(plans, storyId) ==
    IF \E i \in 1..Len(plans) : plans[i] = storyId
    THEN CHOOSE i \in 1..Len(plans) :
            plans[i] = storyId /\ \A j \in 1..(i - 1) : plans[j] # storyId
    ELSE 0

\* The items the drag-and-drop zone hands over: the list with the dragged story
\* moved to the place to.
Moved(plans, storyId, to) ==
    LET rest == SelectSeq(plans, LAMBDA x : x # storyId)
    IN  SubSeq(rest, 1, to - 1) \o <<storyId>> \o SubSeq(rest, to, Len(rest))

\* A sibling taken from before the story.
PlaceBefore_Mutant(plans, matchedStoryIndex) ==
    IF matchedStoryIndex > 1 THEN plans[matchedStoryIndex - 1] ELSE ""

\* const sibling = plans[matchedStoryIndex + 1]; sibling ? sibling.id : ''
PlaceBefore(plans, matchedStoryIndex) ==
    IF matchedStoryIndex + 1 <= Len(plans) THEN plans[matchedStoryIndex + 1] ELSE ""

DndUnchanged == UNCHANGED <<serviceVars, env, cache, helperVars, actorVars, boot, tally, ai>>

\* toggleShow(show): another tab is shown.
toggleShow ==
    /\ dnd.dragging = ""
    /\ \E show \in Tabs : dnd' = [dnd EXCEPT !.storysShow = show]
    /\ DndUnchanged

\* The zone lets a story be dragged unless dragDisabled: !isLeader ||
\* storysShow !== 'all'.
DragStart ==
    /\ dnd.dragging = "" /\ dnd.drops < MaxDrops
    /\ dnd.isLeader /\ dnd.storysShow = "all"
    /\ \E i \in 1..Len(dnd.plans) :
          dnd' = [dnd EXCEPT !.dragging = dnd.plans[i], !.origin = dnd.plans]
    /\ DndUnchanged

\* handleDndConsider: the list follows the drag.
handleDndConsider ==
    /\ dnd.dragging # ""
    /\ \E to \in 1..Len(dnd.plans) :
          dnd' = [dnd EXCEPT !.plans = Moved(dnd.plans, dnd.dragging, to)]
    /\ DndUnchanged

\* handleDndFinalize: the list takes the final order, and when the dropped story
\* is in it one story_arrange event is sent.
handleDndFinalize ==
    /\ dnd.dragging # ""
    /\ \E to \in 1..Len(dnd.plans) :
          LET storyId == dnd.dragging
              plans == Moved(dnd.plans, storyId, to)
              matchedStoryIndex == PlanIndex(plans, storyId)
              event == [type |-> "story_arrange", story_id |-> storyId,
                        before_story_id |-> PlaceBefore(plans, matchedStoryIndex)]
          IN  dnd' = [dnd EXCEPT !.plans = plans, !.dragging = "", !.drops = @ + 1,
                                 !.sent = IF matchedStoryIndex > 0 THEN Append(@, event)
                                          ELSE @]
    /\ DndUnchanged

DndInit ==
    /\ ServiceIdle /\ env = "healthy" /\ cache = <<>> /\ boot = Serving(env)
    /\ HelpersIdle /\ ActorIdle /\ TallyIdle /\ AiIdle
    /\ dnd \in {[NoDnd EXCEPT !.plans = plans, !.isLeader = isLeader] :
                  plans \in PlanLists, isLeader \in BOOLEAN}

DndNext == toggleShow \/ DragStart \/ handleDndConsider \/ handleDndFinalize

DndSpec == DndInit /\ [][DndNext]_vars

\* ------------------------------------------------------------- properties
\* The aggregate GetGameByID builds for userID from what the store holds now.
StoreAggregate(pokerID, userID) ==
    LET r == CHOOSE x \in QueryRow(pokerID, userID) : x.err = "nil"
    IN  [r.b EXCEPT !.Users = GetUsers(pokerID),
                    !.Stories = GetStories(pokerID, userID)]

Returned(p, ops) == pc[p] = "idle" /\ call[p].op \in ops /\ ret[p].err # ""
Succeeded(p, ops) == pc[p] = "idle" /\ call[p].op \in ops /\ ret[p].err = "nil"

\* The cache answers every command: a client is configured and Redis is up.
RedisReachable == env \notin {"redis_nil", "redis_flaky"}

StoryNames(stories) == [i \in 1..Len(stories) |-> stories[i].Name]

\* C1: with store and cache healthy and no call in flight, a cache entry present for
\* a session equals the aggregate the store holds for that session (as one of the
\* users reads it): no stale entry outlives the mutation that should have removed it.
C1_CacheCoherent ==
    (env = "healthy" /\ Quiescent) =>
        \A id \in GameIDs :
            CacheKey(id) \in DOMAIN cache =>
                /\ id \in DOMAIN poker
                /\ \E u \in UserIDs :
                      Unmarshal(cache[CacheKey(id)]) = StoreAggregate(id, u)

\* q is a GetGameByID of p's session that was served from the cache and was the
\* first call started after p's UpdateGame returned success (a call served from the
\* cache returns in the step that starts it, so ret.at numbers its start).
ServedFromCacheAfterUpdate(p, q) ==
    /\ Succeeded(p, {"UpdateGame"})
    /\ Succeeded(q, {"GetGameByID"})
    /\ call[q].pokerID = call[p].pokerID
    /\ ret[q].hit
    /\ ret[q].at = ret[p].at + 1

\* C2: when UpdateGame returns success the cache holds no entry for the session,
\* and the first GetGameByID after it is not served from the cache (it reads the
\* store).
C2_UpdateInvalidates ==
    [][env = "healthy" =>
         \A p \in Procs :
            /\ (pc[p] = "update_del" /\ pc'[p] = "idle" /\ ret'[p].err = "nil")
                  => CacheKey(call[p].pokerID) \notin DOMAIN cache'
            /\ \A q \in Procs : ~ServedFromCacheAfterUpdate(p, q)']_vars

\* C3: the aggregate GetGameByID returns to a user who is not a facilitator of the
\* session carries no facilitator code, whoever read or created the session before.
C3_NoFacilitatorCodeForOthers ==
    \A p \in Procs :
        (/\ Succeeded(p, {"GetGameByID"})
         /\ ~Contains(ret[p].game[1].Facilitators, call[p].userID))
            => ret[p].game[1].FacilitatorCode = NoCode

\* C4: GetGameByID never returns a cached entry whose story list or participant list
\* is empty; a read of a key holding such an entry goes on to the store (having seen
\* the entry, where Redis answers the read), and the call then returns the aggregate
\* it built there and writes it over the entry (where Redis takes the write).
C4_IncompleteEntryIsMiss ==
    [][\A p \in Procs :
          LET key == CacheKey(call'[p].pokerID)
              rejects == /\ env # "redis_nil"
                         /\ key \in DOMAIN cache
                         /\ ~(Len(Unmarshal(cache[key]).Stories) > 0
                              /\ Len(Unmarshal(cache[key]).Users) > 0)
          IN  /\ (Succeeded(p, {"GetGameByID"})' /\ ret'[p].hit)
                    => /\ Len(ret'[p].game[1].Stories) > 0
                       /\ Len(ret'[p].game[1].Users) > 0
              /\ (pc[p] = "idle" /\ call'[p].op = "GetGameByID" /\ calls' = calls + 1
                    /\ (pc'[p] # "idle" \/ ret'[p].at = calls') /\ rejects)
                    => pc'[p] = "get_row" /\ (RedisReachable => loc'[p].incomplete)
              /\ (pc[p] = "get_cache" /\ pc'[p] # "get_cache" /\ rejects)
                    => pc'[p] = "get_row" /\ (RedisReachable => loc'[p].incomplete)
              /\ (pc[p] = "get_set" /\ pc'[p] = "idle" /\ loc[p].incomplete
                    /\ call[p].op = "GetGameByID")
                    => /\ ret'[p].err = "nil" /\ ~ret'[p].hit
                       /\ ret'[p].game = <<loc[p].b>>
                       /\ loc[p].b.ID = call[p].pokerID
                       /\ RedisReachable =>
                             /\ key \in DOMAIN cache'
                             /\ cache'[key] = Marshal(loc[p].b)]_vars

\* A GetGameByID found an incomplete entry, rebuilt the aggregate from the store,
\* returned it and wrote it over the entry.
C4_Witness ==
    \E p \in Procs :
        /\ Succeeded(p, {"GetGameByID"})
        /\ loc[p].incomplete /\ ~ret[p].hit
        /\ Len(ret[p].game[1].Stories) > 0
        /\ CacheKey(call[p].pokerID) \in DOMAIN cache
        /\ cache[CacheKey(call[p].pokerID)] = Marshal(ret[p].game[1])

\* C5: a GetGameByID that follows a successful CreateGame at once, for the new
\* session and the creating user, returns an aggregate equal to the one CreateGame
\* returned.
C5_CreateThenGetEqual ==
    \A p, q \in Procs :
        (/\ env = "healthy"
         /\ Succeeded(p, CreateOps)
         /\ Succeeded(q, {"GetGameByID"})
         /\ ret[q].at = ret[p].at + 1
         /\ call[q].pokerID = ret[p].game[1].ID
         /\ call[q].userID = call[p].userID)
            => ret[q].game = ret[p].game

\* C6: the aggregate a successful CreateGame returns carries the allocated
\* identity, the creator as facilitator and every initial story passed in.
C6_CreateReturnsFullAggregate ==
    \A p \in Procs :
        Succeeded(p, CreateOps) =>
            /\ ret[p].game[1].ID = call[p].pokerID
            /\ ret[p].game[1].ID \in 1..(nextID - 1)
            /\ Contains(ret[p].game[1].Facilitators, call[p].userID)
            /\ StoryNames(ret[p].game[1].Stories) = StoryNames(call[p].stories)

TxSteps == {"begin", "insert_poker", "insert_facilitator", "insert_story", "commit"}

\* C7: when a step of CreateGame's transactional write fails, CreateGame returns an
\* error and has changed neither the store nor the cache.
C7_FailedCreateReturnsError ==
    [][\A p \in Procs :
          (pc[p] = "idle" /\ call'[p].op \in CreateOps /\ calls' = calls + 1
             /\ ret'[p].at = calls' /\ ret'[p].step \in TxSteps)
             => /\ ret'[p].err = "error"
                /\ UNCHANGED <<store, cache>>]_vars

\* p's CreateGame or TeamCreateGame returns success in this step.
CreateReturnsOk(p) ==
    /\ call[p].op \in CreateOps
    /\ pc[p] # "idle" /\ pc'[p] = "idle"
    /\ ret'[p].err = "nil"

GetAfterMiss(p, q) ==
    /\ Succeeded(p, {"GetGameByID"}) /\ ~ret[p].hit
    /\ Returned(q, {"GetGameByID"})
    /\ ret[q].at = ret[p].at + 1
    /\ call[q].pokerID = call[p].pokerID
    /\ call[q].userID = call[p].userID
    /\ Len(ret[p].game[1].Stories) > 0 /\ Len(ret[p].game[1].Users) > 0

\* C9: a GetGameByID that misses the cache and succeeds has written the aggregate
\* it returns under the session's key when it returns, and a GetGameByID by the
\* same user right after it is served from the cache and returns an equal aggregate.
C9_MissRepopulates ==
    [][RedisReachable =>
         \A p \in Procs :
            /\ (pc[p] = "get_set" /\ pc'[p] = "idle" /\ call[p].op = "GetGameByID")
                  => /\ ret'[p].err = "nil" /\ ~ret'[p].hit
                     /\ CacheKey(call[p].pokerID) \in DOMAIN cache'
                     /\ cache'[CacheKey(call[p].pokerID)] = Marshal(ret'[p].game[1])
            /\ \A q \in Procs :
                  GetAfterMiss(p, q)'
                     => /\ ret'[q].err = "nil" /\ ret'[q].hit
                        /\ ret'[q].game = ret'[p].game]_vars

\* A miss followed at once by a hit of the same user, returning the same aggregate.
C9_Witness ==
    \E p, q \in Procs :
        /\ RedisReachable
        /\ GetAfterMiss(p, q)
        /\ ret[q].hit /\ ret[q].game = ret[p].game
        /\ cache[CacheKey(call[p].pokerID)] = Marshal(ret[p].game[1])

\* C10: no join code or facilitator code is held in plaintext, in the store or in
\* a cache entry.
C10_NoPlaintextCodes ==
    /\ \A id \in DOMAIN poker :
          ~IsPlaintext(poker[id].join_code) /\ ~IsPlaintext(poker[id].leader_code)
    /\ \A key \in DOMAIN cache :
          /\ ~IsPlaintext(Unmarshal(cache[key]).JoinCode)
          /\ ~IsPlaintext(Unmarshal(cache[key]).FacilitatorCode)

\* p's call returns in this step (a call that ends in its first round-trip starts
\* and returns in one step).
ReturnsNow(p) ==
    /\ pc'[p] = "idle" /\ ret'[p].err # ""
    /\ (pc[p] # "idle" \/ (calls' = calls + 1 /\ ret'[p].at = calls'))

\* What p's call may return in this step where only the cache fails.
ReturnsAsWithoutCache(p) ==
    LET op == call'[p].op
        key == CacheKey(call'[p].pokerID)
    IN  /\ op \in CreateOps =>
              (ret'[p].err = "nil" /\ ret'[p].game = <<loc[p].created>>)
        /\ op \in {"UpdateGame", "DeleteGame"} => ret'[p].err = "nil"
        /\ op = "GetGameByID" =>
              \/ /\ ret'[p].err = "nil" /\ ret'[p].hit
                 /\ env = "redis_flaky" /\ key \in DOMAIN cache
                 /\ ret'[p].game = <<Unmarshal(cache[key])>>
              \/ /\ ret'[p].err = "nil" /\ ~ret'[p].hit
                 /\ pc[p] = "get_set" /\ ret'[p].game = <<loc[p].b>>
              \/ /\ call'[p].pokerID \notin DOMAIN poker
                 /\ ret'[p].err = "error" /\ ret'[p].step = "query"

\* C11: where only the cache fails (no client, or commands that fail), no call
\* returns an error because of it: CreateGame returns its aggregate, UpdateGame and
\* DeleteGame return nil, and GetGameByID returns the aggregate it built from the
\* store unless the cache answered with a complete entry; its only error is the
\* store's for a session that does not exist.
C11_CacheFailureNeverFails ==
    [][(env \in {"redis_nil", "redis_flaky"}) =>
         \A p \in Procs : ReturnsNow(p) => ReturnsAsWithoutCache(p)]_vars

\* The only call so far, a GetGameByID with a Redis whose commands failed, returned
\* the store's aggregate and left no entry behind.
C11_Witness ==
    \E p \in Procs :
        /\ env = "redis_flaky" /\ calls = 1
        /\ Succeeded(p, {"GetGameByID"}) /\ ~ret[p].hit
        /\ CacheKey(call[p].pokerID) \notin DOMAIN cache
        /\ ret[p].game = <<StoreAggregate(call[p].pokerID, call[p].userID)>>

\* C12: an UpdateGame for a session id the store does not hold fails: with calls
\* one after another and nothing failing, the last call is never an UpdateGame that returned success
\* for a session that is not in the store.
C12_UpdateMissingNotFound ==
    \A p \in Procs :
        (env = "healthy" /\ Quiescent /\ Succeeded(p, {"UpdateGame"})
           /\ ret[p].at = calls)
            => call[p].pokerID \in DOMAIN poker

\* C13: an UpdateGame, DeleteGame or GetGameByID that returns an error has changed
\* neither the store nor the cache: it returns the error in its first round-trip or,
\* for GetGameByID, from the SELECT after a cache read that changed nothing.
C13_FailedCallChangesNothing ==
    [][\A p \in Procs :
          /\ (/\ ReturnsNow(p) /\ ret'[p].err = "error"
              /\ call'[p].op \in {"UpdateGame", "DeleteGame", "GetGameByID"})
                => /\ UNCHANGED <<store, cache>>
                   /\ pc[p] \in {"idle", "get_row"}
                   /\ pc[p] = "get_row" => call[p].op = "GetGameByID"
          /\ (pc[p] = "idle" /\ pc'[p] = "get_row")
                => UNCHANGED <<store, cache>>]_vars

\* An UpdateGame failed and the entry of its session is still in the cache.
C13_Witness ==
    \E p \in Procs :
        /\ Returned(p, {"UpdateGame"}) /\ ret[p].err = "error"
        /\ call[p].pokerID \in DOMAIN poker
        /\ CacheKey(call[p].pokerID) \in DOMAIN cache

\* C14: a second invalidation of the same target right after a successful one
\* leaves the cache as it is and, with a Redis that answers, reports no error: Delete on the key just deleted,
\* InvalidateByPattern on the pattern just invalidated (which then returns 0), and
\* the DEL of UpdateGame and DeleteGame applied to its own result.
C14_InvalidateTwice ==
    [][/\ (res'.again /\ res' # res /\ res'.op \in {"Delete", "InvalidateByPattern"})
            => /\ cache' = cache
               /\ env = "healthy" => (res'.err = "nil" /\ res'.n = 0)
       /\ (res'.op = "InvalidateByPattern" /\ res' # res /\ res'.err = "nil"
              /\ Keys(cache, res'.pattern) = {})
            => cache' = cache /\ res'.n = 0
       /\ env = "healthy" =>
             \A id \in GameIDs :
                \A c \in Invalidate(cache, id) : Invalidate(c, id) = {c}]_vars

\* A key was deleted twice in a row without an error, the cache holding other keys.
C14_Witness ==
    /\ env = "healthy" /\ res.op = "Delete" /\ res.again /\ res.err = "nil"
    /\ res.key \notin DOMAIN cache /\ cache # <<>>

\* The lock and active-item rule on the rows of the store: the active story, if
\* any, is a story of the same game, and a game without active story is locked.
ActiveAndLockConsistent ==
    \A id \in DOMAIN poker :
        /\ poker[id].active_story_id \in 0..Len(poker_story[id])
        /\ poker[id].active_story_id = 0 => poker[id].voting_locked

\* C15: every game in the store has at most one active story (one reference), the
\* active story is one of its own, and it is locked when it has none; CreateGame
\* returns and stores a locked game without active story, and no step (UpdateGame
\* in particular) changes the lock flag or the active story of a stored game.
C15_ActiveItemAndLock ==
    [][/\ ActiveAndLockConsistent /\ ActiveAndLockConsistent'
       /\ \A id \in DOMAIN poker \cap DOMAIN poker' :
             /\ poker'[id].voting_locked = poker[id].voting_locked
             /\ poker'[id].active_story_id = poker[id].active_story_id
       /\ \A id \in DOMAIN poker' \ DOMAIN poker :
             poker'[id].voting_locked /\ poker'[id].active_story_id = 0
       /\ \A p \in Procs :
             (ReturnsNow(p) /\ call'[p].op \in CreateOps /\ ret'[p].err = "nil")
                => /\ ret'[p].game[1].VotingLocked
                   /\ ret'[p].game[1].ActiveStoryID = 0]_vars

\* UpdateGame changed the settings of the game whose story is active and open, and
\* a game created since is locked.
C15_Witness ==
    \E p \in Procs :
        /\ Succeeded(p, {"UpdateGame"}) /\ call[p].pokerID = 1
        /\ DOMAIN poker = {1, 2}
        /\ poker[1].name = call[p].cfg.name /\ poker[1].name # InitialGame.name
        /\ poker[1].active_story_id = 1 /\ ~poker[1].voting_locked
        /\ poker[2].active_story_id = 0 /\ poker[2].voting_locked

\* The Session Actor has just processed one request of the given type.
Processed(type) ==
    /\ Len(applied') = Len(applied) + 1
    /\ applied'[Len(applied')].type = type

ProcessedOk(type) == Processed(type) /\ applied'[Len(applied')].ok

\* C16: with auto-finish on, the step that records the vote completing the round
\* (every live, non-spectating participant has voted) is the step that locks
\* voting; a vote is recorded only against an unlocked session with an active item,
\* so a vote processed after the lock is rejected and changes no vote, and of two
\* final votes waiting together the second is validated against the session the
\* first one left.
C16_AutoFinishInSameStep ==
    [][/\ ProcessedOk("SubmitVote")
            => /\ ~session.locked /\ session.active # 0
               /\ (session'.autoFinish /\ AllVoted(session')) => session'.locked
       /\ (Processed("SubmitVote") /\ session.locked)
            => ~applied'[Len(applied')].ok /\ session' = session /\ events' = events
       /\ session.locked =>
             \A i \in Items : \A u \in DOMAIN session'.votes[i] :
                u \in DOMAIN session.votes[i] /\ session'.votes[i][u] = session.votes[i][u]]_vars

\* Two votes completed the round and locked it; a third vote was rejected.
C16_Witness ==
    /\ session.autoFinish /\ session.locked /\ AllVoted(session)
    /\ Len(applied) = 3
    /\ \A k \in 1..3 : applied[k].type = "SubmitVote" /\ applied[k].ok = (k < 3)
    /\ DOMAIN session.votes[session.active] = {"u1", "u2"}

\* The requests of a log that were applied, by their acceptance numbers, in order.
AppliedMutations(log) ==
    LET a == SelectSeq(log, LAMBDA e : e.ok)
    IN  [k \in 1..Len(a) |-> a[k].seq]

IsPrefix(a, b) == Len(a) <= Len(b) /\ a = SubSeq(b, 1, Len(a))

C18_ReorderKeepsTotalOrder ==
    [][ProcessedOk("ReorderItem") =>
          LET r == Head(inbox)
              pos == session'.position
          IN  /\ {pos[i] : i \in Items} = 0..(MaxItems - 1)
              /\ IF r.before = 0 THEN pos[r.item] = MaxItems - 1
                                 ELSE pos[r.before] = pos[r.item] + 1
              /\ \A a, b \in Items \ {r.item} :
                    (session.position[a] < session.position[b]) <=> (pos[a] < pos[b])
              /\ [session' EXCEPT !.position = session.position] = session]_vars

\* The last item was moved to the front, before the first; the others shifted by one.
C18_Witness ==
    /\ Len(applied) = 1 /\ applied[1].type = "ReorderItem" /\ applied[1].ok
    /\ session.position[MaxItems] = 0
    /\ \A i \in Items \ {MaxItems} : session.position[i] = i

\* C19: an ActivateItem applied while another item is active leaves that item
\* without votes, makes the named item the active one (the session holds a single
\* active reference) with no votes, and unlocks voting, changing nothing else; an
\* ActivateItem naming a finalized item is rejected: no event, session unchanged.
C19_ActivateClearsAndUnlocks ==
    [][Processed("ActivateItem") =>
          LET r == Head(inbox)
          IN  IF session.points[r.item] # ""
              THEN /\ ~applied'[Len(applied')].ok
                   /\ session' = session /\ events' = events /\ conns' = conns
              ELSE /\ applied'[Len(applied')].ok
                   /\ session'.active = r.item /\ ~session'.locked
                   /\ session'.votes[r.item] = <<>>
                   /\ session.active # 0 => session'.votes[session.active] = <<>>
                   /\ \A i \in Items \ {r.item, session.active} :
                         session'.votes[i] = session.votes[i]
                   /\ [session' EXCEPT !.votes = session.votes,
                                       !.active = session.active,
                                       !.locked = session.locked] = session]_vars

\* Both voters voted on the first item, which locked the round; then another item
\* was activated: the first item's votes are gone and voting is open.
C19_Witness ==
    /\ Len(applied) = 3
    /\ applied[1].type = "SubmitVote" /\ applied[1].ok
    /\ applied[2].type = "SubmitVote" /\ applied[2].ok
    /\ applied[3].type = "ActivateItem" /\ applied[3].ok
    /\ session.active = 2 /\ ~session.locked
    /\ session.votes[1] = <<>> /\ session.votes[2] = <<>>

\* An ActivateItem on the item just finalized was rejected.
C19_RejectedWitness ==
    /\ Len(applied) = 2
    /\ applied[1].type = "FinalizeVoting" /\ applied[1].ok
    /\ applied[2].type = "ActivateItem" /\ ~applied[2].ok
    /\ session.points[1] # "" /\ session.active = 1 /\ session.locked

\* The participant's AbandonParticipant is waiting in the queue.
AbandonPending(u) ==
    \E j \in 1..Len(inbox) : inbox[j].type = "AbandonParticipant" /\ inbox[j].who = u

\* Every dropped connection's participant is marked not live or is about to be.
DroppedAreAbandoned ==
    \A u \in Participants :
        ~conns[u].attached => (~session.live[u] \/ AbandonPending(u))

\* C20: an event is fanned out whatever the state of the outbound queues: a
\* connection whose queue is full is dropped, and in the same step every other
\* attached connection gets the event at the tail of its queue; a dropped
\* connection's AbandonParticipant is queued at once, is never rejected, and when
\* processed sets the participant's liveness to false and changes nothing else, so
\* the participant's recorded votes stay.
C20_DropDoesNotBlockOthers ==
    [][/\ DroppedAreAbandoned /\ DroppedAreAbandoned'
       /\ \A t \in {"SubmitVote", "ActivateItem", "FinalizeVoting", "ReorderItem",
                     "AbandonParticipant"} :
             ProcessedOk(t) =>
                \A u \in Participants :
                   IF conns[u].attached /\ Len(conns[u].outq) < MaxQueue
                   THEN /\ conns'[u].attached
                        /\ conns'[u].outq = Append(conns[u].outq, events'[Len(events')])
                        /\ conns'[u].delivered = conns[u].delivered
                   ELSE ~conns'[u].attached /\ conns'[u].delivered = conns[u].delivered
       /\ Processed("AbandonParticipant") =>
             /\ applied'[Len(applied')].ok
             /\ ~session'.live[Head(inbox).who]
             /\ session'.votes = session.votes
             /\ [session' EXCEPT !.live = session.live] = session]_vars

\* u1 voted and was dropped for not reading; its abandon was processed; a later
\* vote was broadcast and u2 has received every event; u1 is not live and its vote
\* is still on the active item.
C20_Witness ==
    /\ ~conns["u1"].attached /\ ~session.live["u1"]
    /\ session.active # 0 /\ "u1" \in DOMAIN session.votes[session.active]
    /\ Len(applied) = 4
    /\ applied[3].type = "AbandonParticipant"
    /\ applied[4].type = "SubmitVote" /\ applied[4].ok
    /\ conns["u2"].attached /\ conns["u2"].delivered = events /\ Len(events) = 4
    /\ conns["u3"].attached

\* C21: a tally of votes none of which is numeric has a null average (not zero, and
\* computed without a division by zero), and the undecided count of any tally is
\* the number of its non-numeric votes; with a numeric vote the average is the sum
\* of the contributions over the number of numeric votes.
C21_NoNumericVoteNullAverage ==
    tally.done =>
        LET numeric == {u \in DOMAIN tally.votes : IsNumeric(tally.votes[u])}
        IN  /\ ~tally.panicked
            /\ tally.undecided = Cardinality(DOMAIN tally.votes) - Cardinality(numeric)
            /\ numeric = {} => tally.average = <<>>
            /\ numeric # {} =>
                  /\ Len(tally.average) = 2
                  /\ tally.average[2] = 2 * Cardinality(numeric)
                  /\ tally.average[1] = SumHalfPoints(tally.votes, numeric)

\* Everyone voted "unsure": the average is null and all three are undecided.
C21_Witness ==
    /\ tally.done /\ DOMAIN tally.votes = Participants
    /\ \A u \in Participants : tally.votes[u] = UnsureToken
    /\ tally.average = <<>> /\ tally.undecided = Cardinality(Participants)

\* C22: once DeleteGame has returned success for a session, no GetGameByID for it
\* that starts afterwards is served from the cache (a call served from the cache
\* returns in the step that starts it, so ret.at numbers its start): such a call
\* fails, whatever GetGameByID calls were in flight during the deletion.
C22_DeletedNeverServed ==
    \A p, q \in Procs :
        (/\ env = "healthy"
         /\ Succeeded(p, {"DeleteGame"})
         /\ Returned(q, {"GetGameByID"})
         /\ call[q].pokerID = call[p].pokerID
         /\ ret[q].hit /\ ret[q].at > ret[p].at)
            => ret[q].err = "error"

\* C23: an entry that is empty only where the session itself is empty is complete:
\* with everything healthy, a GetGameByID that finds under the session's key the
\* very aggregate the store holds for its user is served from the cache, also
\* when that session has no story or no participant.
C23_EmptySessionEntryIsHit ==
    [][\A p \in Procs :
          LET id == call'[p].pokerID
              key == CacheKey(id)
          IN  (/\ env = "healthy"
               /\ pc[p] = "idle" /\ call'[p].op = "GetGameByID" /\ calls' = calls + 1
               /\ (pc'[p] # "idle" \/ ret'[p].at = calls')
               /\ id \in DOMAIN poker
               /\ key \in DOMAIN cache
               /\ Unmarshal(cache[key]) = StoreAggregate(id, call'[p].userID))
                 => pc'[p] = "idle" /\ ret'[p].err = "nil" /\ ret'[p].hit]_vars

\* The keys whose entry this step wrote, replaced or removed.
KeysTouched ==
    {k \in DOMAIN cache \cup DOMAIN cache' :
        \/ (k \in DOMAIN cache) # (k \in DOMAIN cache')
        \/ k \in DOMAIN cache \cap DOMAIN cache' /\ cache[k] # cache'[k]}

\* C24: every step of a call that touches the cache touches only the entry under
\* "game:" followed by the id of the call's own session; an entry under that key
\* describes that session, and a call served from the cache returns the entry that
\* stood under the key of the session it asked for.
C24_OneKeyPerSession ==
    [][/\ \A k \in KeysTouched :
             \E p \in Procs : pc[p] # pc'[p] /\ k = <<"game:", call[p].pokerID>>
       /\ \A id \in GameIDs :
             <<"game:", id>> \in DOMAIN cache' => Unmarshal(cache'[<<"game:", id>>]).ID = id
       /\ \A p \in Procs :
             (ReturnsNow(p) /\ call'[p].op = "GetGameByID" /\ ret'[p].hit)
                => /\ <<"game:", call'[p].pokerID>> \in DOMAIN cache
                   /\ ret'[p].game = <<Unmarshal(cache[<<"game:", call'[p].pokerID>>])>>]_vars

\* A session was created and cached, then deleted with its entry, while the entry
\* of the first session stayed.
C24_Witness ==
    \E p, q \in Procs :
        /\ env = "healthy"
        /\ Succeeded(q, CreateOps) /\ ret[q].step = "" /\ call[q].pokerID = 2
        /\ Succeeded(p, {"DeleteGame"}) /\ call[p].pokerID = 2
        /\ DOMAIN cache = {<<"game:", 1>>}

\* C25: the stories of every session in the store have the positions 0..n-1, and
\* a session CreateGame or TeamCreateGame has just created holds the n stories
\* it was given, in the order given, the i-th at position i-1.
C25_InitialPositionsContiguous ==
    /\ \A id \in DOMAIN poker_story :
          \A i \in 1..Len(poker_story[id]) : poker_story[id][i].position = i - 1
    /\ \A p \in Procs :
          (call[p].op \in CreateOps /\ call[p].pokerID \in DOMAIN poker_story)
             => LET rows == poker_story[call[p].pokerID]
                IN  /\ Len(rows) = Len(call[p].stories)
                    /\ \A i \in 1..Len(rows) : rows[i].name = call[p].stories[i].Name
                    /\ {rows[i].position : i \in 1..Len(rows)} = 0..(Len(rows) - 1)

\* A session was created with three stories; the last one is at position 2.
C25_Witness ==
    \E p \in Procs :
        /\ Succeeded(p, CreateOps) /\ Len(call[p].stories) = 3
        /\ poker_story[call[p].pokerID][3].position = 2
        /\ poker_story[call[p].pokerID][3].name = NewStory(3).Name

\* The row with the columns UpdateGame may write blanked out.
OutsideUpdate(row) ==
    [row EXCEPT !.name = "", !.point_values_allowed = <<>>, !.auto_finish_voting = FALSE,
                !.point_average_rounding = "", !.hide_voter_identity = FALSE,
                !.join_code = NoCode, !.leader_code = NoCode, !.team_id = ""]

\* C26: a step of an UpdateGame leaves the stories, the participants, the
\* facilitators and the rows of all other sessions as they are, adds and removes
\* no session, and changes in the row of its own session nothing but name, point
\* values, auto-finish, rounding, hide-voter, the two codes and the team (so not
\* the lock, the active story, the scale or the creation date).
C26_UpdateTouchesSettingsOnly ==
    [][\A p \in Procs :
          (/\ call'[p].op = "UpdateGame"
           /\ (pc[p] # pc'[p] \/ (calls' = calls + 1 /\ ret'[p].at = calls')))
             => /\ UNCHANGED <<poker_facilitator, poker_story, poker_user, nextID>>
                /\ DOMAIN poker' = DOMAIN poker
                /\ \A id \in DOMAIN poker :
                      IF id = call'[p].pokerID
                      THEN OutsideUpdate(poker'[id]) = OutsideUpdate(poker[id])
                      ELSE poker'[id] = poker[id]]_vars

\* An UpdateGame renamed session 1 and moved it to another team while a second
\* session existed; the lock, the active story, stories and participants of
\* session 1 are as before.
C26_Witness ==
    \E p \in Procs :
        /\ Succeeded(p, {"UpdateGame"}) /\ call[p].pokerID = 1
        /\ DOMAIN poker = {1, 2}
        /\ poker[1].name = "a" /\ poker[1].team_id = call[p].cfg.teamID
        /\ poker[1].auto_finish_voting
        /\ ~poker[1].voting_locked /\ poker[1].active_story_id = 1
        /\ poker_user[1] = <<"u1", "u2">> /\ Len(poker_story[1]) = 1
        /\ poker_facilitator[1] = <<"u1">>

\* InitRedis returned an error.
InitFailed == boot.initErr \notin {"", "nil"}

\* C27 as stated: after a failed InitRedis main does not exit, logs the failure
\* and serves, and from then on no call of the poker service changes the cache or
\* is served from it: every cache operation is a miss or a no-op.
C27_FailedInitCacheInert ==
    [][InitFailed =>
          /\ boot'.stage # "exited"
          /\ boot'.stage = "serving" => boot'.logged
          /\ boot.stage = "serving" =>
                /\ cache' = cache
                /\ \A p \in Procs : ReturnsNow(p) => ~ret'[p].hit]_vars

\* C27 as amended: after a failed InitRedis main does not exit, logs the failure
\* and serves with the client InitRedis created (never a nil one); every call then
\* returns what it would return without a cache whenever its cache operations
\* fail, and no call fails because of the cache, while a cache operation that
\* Redis answers later takes effect.
C27_FailedInitServesBestEffort ==
    [][InitFailed =>
          /\ boot'.stage # "exited"
          /\ boot'.stage = "serving" => (boot'.logged /\ boot'.client)
          /\ boot.stage = "serving" =>
                \A p \in Procs : ReturnsNow(p) => ReturnsAsWithoutCache(p)]_vars

\* InitRedis failed on its PING, main logged it and served; Redis answered later,
\* and a GetGameByID was served from the cache.
C27_Witness ==
    \E p \in Procs :
        /\ boot.stage = "serving" /\ boot.initErr = "ping" /\ boot.logged /\ boot.client
        /\ Succeeded(p, {"GetGameByID"}) /\ ret[p].hit

\* C28: with callers that only call GetOrSet and a Redis that answers, no two
\* calls on one key both write it, and a caller that has returned success holds
\* the value stored under its key.
C28_GetOrSetWritesOnce ==
    env = "healthy" =>
        \A p, q \in Procs :
            /\ (p # q /\ h[p].op = "GetOrSet" /\ h[q].op = "GetOrSet" /\ h[p].key = h[q].key)
                  => ~(h[p].wrote /\ h[q].wrote)
            /\ (h[p].op = "GetOrSet" /\ h[p].pc = "idle" /\ h[p].err = "nil")
                  => /\ h[p].key \in DOMAIN cache
                     /\ Unmarshal(cache[h[p].key]) = h[p].out

\* The Gets that have their answer from Redis and have not counted it yet.
Uncounted(stages) == Cardinality({p \in Procs : h[p].pc \in stages})

\* C29: every Get that found its key adds exactly one to HitCount and every Get
\* that found it absent exactly one to MissCount, however the calls interleave (so
\* with no Get between its answer and its increment the counters equal the
\* numbers of such calls), a Get that failed otherwise adds to neither, and what
\* GetCacheStats returns has total_requests = hit_count + miss_count and a hit
\* rate of 0 without requests, of 100 * hit_count / total_requests with.
C29_CountersExact ==
    /\ metrics.HitCount + Uncounted({"lock_hit", "count_hit"}) = metrics.found
    /\ metrics.MissCount + Uncounted({"lock_miss", "count_miss"}) = metrics.absent
    /\ \A p \in Procs :
          /\ (metrics.mutex = p) <=> (h[p].pc \in {"count_hit", "count_miss"})
          /\ (h[p].op = "GetCacheStats" /\ h[p].pc = "idle") =>
                LET st == h[p].stats
                IN  /\ st.total_requests = st.hit_count + st.miss_count
                    /\ st.hit_count <= metrics.HitCount /\ st.miss_count <= metrics.MissCount
                    /\ st.hit_rate = IF st.total_requests = 0 THEN <<0, 1>>
                                     ELSE <<100 * st.hit_count, st.total_requests>>

\* One Get found its key, one did not, and GetCacheStats then reported two
\* requests with a hit rate of 50.
C29_Witness ==
    \E p, q \in Procs :
        /\ h[p].op = "GetCacheStats" /\ h[p].pc = "idle"
        /\ h[p].stats = [hit_count |-> 1, miss_count |-> 1, total_requests |-> 2,
                         hit_rate |-> <<100, 2>>]
        /\ h[q].op = "Get" /\ h[q].pc = "idle"
        /\ metrics.found = 1 /\ metrics.absent = 1

\* C30: with the package-level client not initialised, every helper that was
\* called (Set, Get, Delete, Exists, SetNX, GetOrSet) has returned an error to its
\* caller instead of failing, and Redis and the counters are as they were.
C30_NilClientReturnsError ==
    env = "redis_nil" =>
        /\ cache = <<>>
        /\ metrics = NoMetrics
        /\ \A p \in Procs : (h[p].op # "" /\ h[p].op # "GetCacheStats" /\ h[p].pc = "idle")
                                  => h[p].err = "error"

\* Whether a key matches a pattern ("game:*" matches every key that starts with
\* "game:", "game:1" that key alone).
Matches(k, pattern) == k[1] = pattern.prefix /\ (pattern.any \/ k[2] = pattern.id)

\* C31: in the step in which InvalidateByPattern returns without error, whatever
\* other callers did meanwhile, no key that was in Redis and matched the pattern
\* when the call ran KEYS is in the cache, the call has changed no key that does
\* not match, and the count it returns is the number of keys its step removed (0
\* when nothing matched).
C31_InvalidateRemovesMatches ==
    [][\A p \in Procs :
         (h[p] # h'[p] /\ h'[p].op = "InvalidateByPattern" /\ h'[p].pc = "idle"
             /\ h'[p].err = "nil")
           => LET c == h'[p]
              IN  /\ \A k \in c.before : Matches(k, c.pattern) => k \notin DOMAIN cache'
                  /\ \A k \in HelperKeys \cup CallerKeys :
                        ~Matches(k, c.pattern)
                          => /\ (k \in DOMAIN cache) <=> (k \in DOMAIN cache')
                             /\ k \in DOMAIN cache => cache'[k] = cache[k]
                  /\ c.deleted = Cardinality(DOMAIN cache \ DOMAIN cache')
                  /\ (\A k \in c.before : ~Matches(k, c.pattern)) => c.deleted = 0]_vars

\* An invalidation of "game:*" returned 1 without error and a key of another
\* prefix is still in the cache.
C31_Witness ==
    \E p \in Procs :
        /\ h[p].op = "InvalidateByPattern" /\ h[p].pc = "idle" /\ h[p].err = "nil"
        /\ h[p].pattern = [prefix |-> "game:", any |-> TRUE, id |-> 0]
        /\ h[p].deleted = 1 /\ CacheKey(1) \in h[p].before
        /\ CacheKey(1) \notin DOMAIN cache /\ <<"user:", 1>> \in DOMAIN cache

\* The positions of the available points that are numbers.
NumericAvailable(availablePoints) ==
    {i \in 1..Len(availablePoints) : ~Atoi(availablePoints[i]).err}

\* C33: findClosestPoint returns the point itself when it is available; for a
\* numeric point that is not, the numeric available point of the smallest absolute
\* difference, the earliest in the list on a tie; for a non-numeric point that is
\* not, "?" when "?" is available and otherwise the last available point.
C33_ClosestPoint ==
    (ai.fn = "findClosestPoint" /\ ai.done) =>
        LET av == ai.availablePoints
            num == Atoi(ai.point)
            numeric == NumericAvailable(av)
            Diff(i) == AbsDiff(Atoi(av[i]).n, num.n)
        IN  /\ InList(ai.point, av) => (~ai.panicked /\ ai.out = ai.point)
            /\ (~InList(ai.point, av) /\ ~num.err /\ numeric # {})
                  => /\ ~ai.panicked
                     /\ \E i \in numeric :
                           /\ ai.out = av[i]
                           /\ \A j \in numeric : Diff(i) < Diff(j) \/ (Diff(i) = Diff(j) /\ i <= j)
            /\ (~InList(ai.point, av) /\ num.err /\ av # <<>>)
                  => /\ ~ai.panicked
                     /\ ai.out = IF InList(Unsure, av) THEN Unsure ELSE av[Len(av)]

\* C32: for every text of an AI answer and every non-empty list of available
\* points, the point parseAIResponse returns is one of the available points.
C32_SuggestedPointAvailable ==
    (ai.fn = "parseAIResponse" /\ ai.done /\ ~ai.panicked /\ ai.availablePoints # <<>>)
        => InList(ai.out, ai.availablePoints)

\* C34: parseAIResponse returns a point and a reason for every text and every
\* list of available points, the empty list included: it never fails on an index
\* or a slice out of range.
C34_ParseNeverPanics ==
    (ai.fn = "parseAIResponse" /\ ai.done) => ~ai.panicked

\* C35: SuggestPoints calls the AI API only after it has checked, in this order,
\* the method (405 unless POST), the body (400 unless it decodes) and the AI URL
\* (500 unless configured); a request that has been handled has exactly one
\* response; and a suggestion is written only when the AI API answered with 200.
C35_SuggestPointsOrderAndResponse ==
    LET q == ai.req
    IN  (ai.fn = "SuggestPoints") =>
          /\ q.aiCalls > 0 =>
                /\ q.checks = <<"method", "body", "url">>
                /\ q.method = "POST" /\ q.decodes /\ q.url # ""
          /\ \E n \in 0..3 : q.checks = SubSeq(<<"method", "body", "url">>, 1, n)
          /\ (q.pc = "returned" /\ q.method # "POST")
                => (q.written = <<ErrorResponse(405)>> /\ q.aiCalls = 0)
          /\ (q.pc = "returned" /\ q.method = "POST" /\ ~q.decodes)
                => (q.written = <<ErrorResponse(400)>> /\ q.aiCalls = 0)
          /\ (q.pc = "returned" /\ q.method = "POST" /\ q.decodes /\ q.url = "")
                => (q.written = <<ErrorResponse(500)>> /\ q.aiCalls = 0)
          /\ Len(q.written) <= 1
          /\ q.pc \in {"returned", "panicked"} => Len(q.written) = 1
          /\ \A i \in 1..Len(q.written) : q.written[i].suggestion => q.aiStatus = 200

\* C36: a drop that leaves the story at a place other than the one it was dragged
\* from sends exactly one event, a story_arrange with the id of the moved story
\* and, as before_story_id, the id of the story that follows it in the new order,
\* or the empty string when it is now the last.
C36_DropSendsOneArrange ==
    [][(dnd'.drops = dnd.drops + 1 /\ dnd'.plans # dnd.origin)
         => \E i \in 1..Len(dnd'.plans) :
               /\ dnd'.plans[i] = dnd.dragging
               /\ Len(dnd'.sent) = Len(dnd.sent) + 1
               /\ SubSeq(dnd'.sent, 1, Len(dnd.sent)) = dnd.sent
               /\ dnd'.sent[Len(dnd'.sent)] =
                     [type |-> "story_arrange", story_id |-> dnd.dragging,
                      before_story_id |-> IF i = Len(dnd'.plans) THEN ""
                                          ELSE dnd'.plans[i + 1]]]_vars

\* Two drops on a list of three stories have sent two events: the first named
\* the story now at the head, to go before the story now at the tail, the second
\* the story now at the tail with an empty before_story_id.
C36_Witness ==
    /\ dnd.drops = 2 /\ dnd.dragging = "" /\ Len(dnd.plans) = 3 /\ Len(dnd.sent) = 2
    /\ dnd.sent[1].story_id = dnd.plans[1] /\ dnd.sent[1].before_story_id = dnd.plans[3]
    /\ dnd.sent[2].story_id = dnd.plans[3] /\ dnd.sent[2].before_story_id = ""

====
